---- MODULE Spec2Model ----
(***************************************************************************)
(* Model of the Workday XML-to-CSV parsers ("Parsing Scripts") and of the  *)
(* sequencer run_all_parsers.py.                                           *)
(*                                                                         *)
(* An XML element is a record [tag, Descriptor, type, text, kids]: tag is  *)
(* the local name under the report's wd namespace, Descriptor and type are *)
(* the namespace-qualified attributes the scripts read (None when the      *)
(* attribute is absent), text is the element's text (None when it has      *)
(* none, as ElementTree reports it) and kids is the sequence of child      *)
(* elements in document order.                                             *)
(***************************************************************************)
EXTENDS Integers, Sequences, FiniteSets, TLC

\* Python's None, a value distinct from every text of the documents.
None == "<None>"

\* The five parser scripts.
Costing == "xml_parser_costing_allocations_daily.py"
Master == "xml_parser_position_master.py"
Compensation == "xml_parser_position_compensation.py"
Grant == "xml_parser_worktag_grant.py"
Program == "xml_parser_worktag_program.py"

PARSER_SCRIPTS ==
    << Costing, Master, Compensation, Grant, Program >>

Scripts == { PARSER_SCRIPTS[i] : i \in 1..Len(PARSER_SCRIPTS) }

VARIABLES
    \* one typed-ID lookup: the script whose lookup is called, the container element
    \* (NoElement when absent), the requested wd:type, the value returned
    lk_script, lk_container, lk_type, lk_result, lk_pc,
    \* the flattening loop of one script over one parsed document: the root element,
    \* the date stamped on the rows, the number of Report_Entry elements processed,
    \* the rows accumulated so far, the length of the accumulated rows after each
    \* iteration (a history of the loop), the data lines the writer makes of the rows
    fl_script, fl_root, fl_date, fl_done, fl_all_rows, fl_marks, fl_lines, fl_pc,
    \* a batch of run_all_parsers.py: the position of the sequencer and of the parser
    \* process it waits for, the index of the loop over PARSER_SCRIPTS, the input file
    \* of the running parser, its formatted_mod_date, what its parse function returned,
    \* its exit status, the system calls each parser made (a history), the output files,
    \* the values run_script returned, all_successful and the final summary
    b_pc, b_index, b_input, b_date, b_parsed, b_returncode, b_calls, b_files,
    b_results, b_all_successful, b_summary,
    \* one call of a helper function of a script (get_text, get_attribute,
    \* get_typed_id_text): the element and the path passed, the value returned
    hp_script, hp_helper, hp_element, hp_path, hp_result, hp_pc,
    \* runs of one parser one after the other on the same input file with the same
    \* modification date: the output file as it is now and as each run left it
    tw_script, tw_input, tw_date, tw_file, tw_outputs,
    \* the five parsers run as concurrent processes on one file system: the two
    \* directories of config.ini, the files by path before the runs and now, the
    \* position of each parser and the input file it read
    cc_dirs, cc_fs0, cc_fs, cc_pc, cc_read,
    \* one call of an SFTP transfer function: which of the two, config.ini, the local
    \* directory, the server, the position in the function, the items of the loop
    \* (remote_items, local_files_to_upload) and how many were handled, the counters,
    \* the calls made on the server (a history) and the lines printed (a history)
    tr_function, tr_config, tr_local, tr_remote, tr_pc, tr_items, tr_index, tr_counts,
    tr_calls, tr_printed

lookup_vars == << lk_script, lk_container, lk_type, lk_result, lk_pc >>

flatten_vars ==
    << fl_script, fl_root, fl_date, fl_done, fl_all_rows, fl_marks, fl_lines, fl_pc >>

batch_vars ==
    << b_pc, b_index, b_input, b_date, b_parsed, b_returncode, b_calls, b_files,
       b_results, b_all_successful, b_summary >>

helper_vars == << hp_script, hp_helper, hp_element, hp_path, hp_result, hp_pc >>

twice_vars == << tw_script, tw_input, tw_date, tw_file, tw_outputs >>

concurrent_vars == << cc_dirs, cc_fs0, cc_fs, cc_pc, cc_read >>

transfer_vars ==
    << tr_function, tr_config, tr_local, tr_remote, tr_pc, tr_items, tr_index, tr_counts,
       tr_calls, tr_printed >>

vars ==
    << lookup_vars, flatten_vars, batch_vars, helper_vars, twice_vars, concurrent_vars,
       transfer_vars >>

(***************************************************************************)
(* XML elements and the ElementTree calls the scripts make.                *)
(***************************************************************************)
El(tag, descriptor, type, text, kids) ==
    [tag |-> tag, Descriptor |-> descriptor, type |-> type, text |-> text, kids |-> kids]

\* The result of find() when nothing matches (Python None in an element position).
NoElement == El(None, None, None, None, << >>)

IsNone(element) == element.tag = None

\* element.findall('wd:<tag>', NAMESPACE): the direct children named tag, in document order.
findall(element, tag) == SelectSeq(element.kids, LAMBDA k : k.tag = tag)

RECURSIVE FlatMapPath(_, _)
RECURSIVE iterfind(_, _)
\* The matches of a path 'wd:a/wd:b/...' (a sequence of tags) below each element of a sequence.
FlatMapPath(elements, path) ==
    IF elements = << >> THEN << >>
    ELSE iterfind(Head(elements), path) \o FlatMapPath(Tail(elements), path)

\* ElementPath.iterfind: all matches of the path, in document order; the path '.' is << >>.
iterfind(element, path) ==
    IF path = << >> THEN << element >>
    ELSE FlatMapPath(findall(element, Head(path)), Tail(path))

\* element.find(path, NAMESPACE): the first match or None.
find(element, path) ==
    LET ms == iterfind(element, path)
    IN  IF ms = << >> THEN NoElement ELSE Head(ms)

\* element.findtext('wd:<tag>', default='', namespaces=NAMESPACE): the text of the first
\* direct child named tag ('' when it has no text), the default when there is none.
findtext(element, tag, default) ==
    LET ms == findall(element, tag)
    IN  IF ms = << >> THEN default
        ELSE IF Head(ms).text = None THEN "" ELSE Head(ms).text

RECURSIVE DescendantsOfAll(_)
\* element.iter() without the element itself: every descendant, in document order.
Descendants(element) == DescendantsOfAll(element.kids)
DescendantsOfAll(elements) ==
    IF elements = << >> THEN << >>
    ELSE << Head(elements) >> \o DescendantsOfAll(Head(elements).kids)
                              \o DescendantsOfAll(Tail(elements))

\* element.findtext(".//wd:ID[@wd:type='<t>']", default, namespaces=NAMESPACE): the path
\* './/' searches all descendants, the predicate keeps those whose wd:type equals t.
findtext_descendant_ID(element, id_type_value, default) ==
    LET ms == SelectSeq(Descendants(element),
                        LAMBDA d : d.tag = "ID" /\ d.type = id_type_value)
    IN  IF ms = << >> THEN default
        ELSE IF Head(ms).text = None THEN "" ELSE Head(ms).text

(***************************************************************************)
(* The typed-ID lookups of the five scripts.                               *)
(***************************************************************************)
\* The <wd:ID> children of the parent whose wd:type equals the requested value (a
\* case-sensitive comparison of strings), in document order.
TypedIds(parent_of_ids, id_type_value) ==
    SelectSeq(findall(parent_of_ids, "ID"), LAMBDA id_elem : id_elem.type = id_type_value)

\* xml_parser_position_master.py: the loop returns at the first matching ID whose text
\* is truthy and goes on to the next ID otherwise.
get_typed_id_text_master(element, path_to_parent_of_ids, id_type_value, default) ==
    IF IsNone(element) THEN default          \* None.find raises AttributeError
    ELSE LET parent_of_ids == find(element, path_to_parent_of_ids)
             withText == SelectSeq(TypedIds(parent_of_ids, id_type_value),
                                   LAMBDA id_elem : id_elem.text # None /\ id_elem.text # "")
         IN  IF IsNone(parent_of_ids) THEN default
             ELSE IF withText = << >> THEN default
             ELSE Head(withText).text

\* xml_parser_position_compensation.py: the loop returns at the first matching ID.
get_typed_id_text_compensation(element, path_to_parent_of_ids, id_type_value, default) ==
    IF IsNone(element) THEN default          \* None.find raises AttributeError
    ELSE LET parent_of_ids == find(element, path_to_parent_of_ids)
             ms == TypedIds(parent_of_ids, id_type_value)
         IN  IF IsNone(parent_of_ids) THEN default
             ELSE IF ms = << >> THEN default
             ELSE IF Head(ms).text # None THEN Head(ms).text ELSE default

\* xml_parser_worktag_grant.py
get_typed_id_text_grant(element, path_to_parent_of_ids, id_type_value, default) ==
    IF IsNone(element) THEN default
    ELSE LET parent_of_ids == find(element, path_to_parent_of_ids)
             ms == TypedIds(parent_of_ids, id_type_value)
         IN  IF IsNone(parent_of_ids) THEN default
             ELSE IF ms = << >> THEN default
             ELSE IF Head(ms).text # None THEN Head(ms).text ELSE default

\* xml_parser_worktag_program.py
get_typed_id_text_program(element, path_to_parent_of_ids, id_type_value, default) ==
    IF IsNone(element) THEN default
    ELSE LET parent_of_ids == find(element, path_to_parent_of_ids)
             ms == TypedIds(parent_of_ids, id_type_value)
         IN  IF IsNone(parent_of_ids) THEN default
             ELSE IF ms = << >> THEN default
             ELSE IF Head(ms).text # None THEN Head(ms).text ELSE default

\* xml_parser_costing_allocations_daily.py: the Earning_Code and Company_Reference_ID
\* lookups, '' when the container (EarningType, Costing_Company) is absent.
costing_typed_id(container, id_type_value) ==
    IF ~IsNone(container) THEN findtext_descendant_ID(container, id_type_value, "")
    ELSE ""

\* The default each script's lookup is called with (every call leaves it at the
\* declared default of the helper).
LookupDefault(script) == IF script = Master THEN None ELSE ""

\* The typed-ID lookup of a script on a container element (path '.').
TypedIdLookup(script, container, id_type_value) ==
    CASE script = Master ->
            get_typed_id_text_master(container, << >>, id_type_value, LookupDefault(Master))
      [] script = Compensation ->
            get_typed_id_text_compensation(container, << >>, id_type_value,
                                           LookupDefault(Compensation))
      [] script = Grant ->
            get_typed_id_text_grant(container, << >>, id_type_value, LookupDefault(Grant))
      [] script = Program ->
            get_typed_id_text_program(container, << >>, id_type_value, LookupDefault(Program))
      [] script = Costing -> costing_typed_id(container, id_type_value)

(***************************************************************************)
(* Python dictionaries: functions from a set of keys (column names).       *)
(***************************************************************************)
EmptyDict == [k \in {} |-> ""]

\* d.get(k, default)
Get(d, k, default) == IF k \in DOMAIN d THEN d[k] ELSE default

\* d[k] = v
Put(d, k, v) == [x \in (DOMAIN d) \cup {k} |-> IF x = k THEN v ELSE d[x]]

\* A sequence of assignments d[k] = v, given as pairs << k, v >>, made in order: a key
\* assigned more than once keeps the value of its last assignment.
PutAll(d, assignments) ==
    LET keys == { assignments[i][1] : i \in 1..Len(assignments) }
        last(k) == CHOOSE i \in 1..Len(assignments) :
                       /\ assignments[i][1] = k
                       /\ \A j \in (i + 1)..Len(assignments) : assignments[j][1] # k
    IN  [x \in (DOMAIN d) \cup keys |-> IF x \in keys THEN assignments[last(x)][2] ELSE d[x]]

Max(a, b) == IF a >= b THEN a ELSE b

\* The keys of a sequence of column names.
Range(seq) == { seq[i] : i \in 1..Len(seq) }

(***************************************************************************)
(* xml_parser_costing_allocations_daily.py                                 *)
(***************************************************************************)
costing_headers ==
    << "Position_ID", "Employee_ID", "Active_Status", "Worker_Company_ID",
       "CF-FormattedEffectiveDate", "FYStartDate", "FYEndDate",
       "CF-Ledger", "Earning_Code", "CF-WorktagDriverCode-Combo", "CF-WorktagDriverCode",
       "CAllocation_StartDate", "Distribution_Percent", "Costing_Company_Reference_ID",
       "Allocation_WID",
       "Updated_Date" >>

\* The columns the else branch of the Worker test sets to ''.
costing_worker_keys ==
    << "Position_ID", "Employee_ID", "Active_Status", "Worker_Company_ID",
       "CF-FormattedEffectiveDate", "FYStartDate", "FYEndDate" >>

\* The columns the branch without AllocationDetails sets to ''.
costing_allocation_keys ==
    << "CF-Ledger", "Earning_Code", "CF-WorktagDriverCode-Combo", "CF-WorktagDriverCode",
       "CAllocation_StartDate", "Distribution_Percent", "Costing_Company_Reference_ID",
       "Allocation_WID" >>

\* [current_row_data.get(header, '') for header in headers]
costing_row_list(current_row_data) ==
    [i \in 1..Len(costing_headers) |-> Get(current_row_data, costing_headers[i], "")]

\* A variant of worker_data that reads Updated_Date in the entry instead of taking the
\* date of the file.
costing_worker_data_dated_by_entry(report_entry, file_modification_date) ==
    LET worker_element == find(report_entry, << "Worker" >>)
        worker_data ==
            IF ~IsNone(worker_element)
            THEN PutAll(EmptyDict,
                   << << "Position_ID", findtext(worker_element, "Position_ID", "") >>,
                      << "Employee_ID", findtext(worker_element, "Employee_ID", "") >>,
                      << "Active_Status", findtext(worker_element, "Active_Status", "") >>,
                      << "Worker_Company_ID", findtext(worker_element, "Company_ID", "") >>,
                      << "CF-FormattedEffectiveDate",
                         findtext(worker_element, "CF-FormattedEffectiveDate", "") >>,
                      << "FYStartDate", findtext(worker_element, "FYStartDate", "") >>,
                      << "FYEndDate", findtext(worker_element, "FYEndDate", "") >> >>)
            ELSE PutAll(EmptyDict,
                   [i \in 1..Len(costing_worker_keys) |-> << costing_worker_keys[i], "" >>])
    IN  Put(worker_data, "Updated_Date", findtext(report_entry, "Updated_Date", ""))

\* worker_data of one Report_Entry, Updated_Date included.
costing_worker_data(report_entry, file_modification_date) ==
    LET worker_element == find(report_entry, << "Worker" >>)
        worker_data ==
            IF ~IsNone(worker_element)
            THEN PutAll(EmptyDict,
                   << << "Position_ID", findtext(worker_element, "Position_ID", "") >>,
                      << "Employee_ID", findtext(worker_element, "Employee_ID", "") >>,
                      << "Active_Status", findtext(worker_element, "Active_Status", "") >>,
                      << "Worker_Company_ID", findtext(worker_element, "Company_ID", "") >>,
                      << "CF-FormattedEffectiveDate",
                         findtext(worker_element, "CF-FormattedEffectiveDate", "") >>,
                      << "FYStartDate", findtext(worker_element, "FYStartDate", "") >>,
                      << "FYEndDate", findtext(worker_element, "FYEndDate", "") >> >>)
            ELSE PutAll(EmptyDict,
                   [i \in 1..Len(costing_worker_keys) |-> << costing_worker_keys[i], "" >>])
    IN  Put(worker_data, "Updated_Date", file_modification_date)

\* current_row_data of one AllocationDetails element: worker_data.copy() and the
\* allocation columns.
costing_current_row_data(worker_data, alloc_detail) ==
    LET earning_type_element == find(alloc_detail, << "EarningType" >>)
        costing_company_element == find(alloc_detail, << "Costing_Company" >>)
    IN  PutAll(worker_data,
              << << "CF-Ledger", findtext(alloc_detail, "CF-Ledger", "") >>,
                 << "Earning_Code", costing_typed_id(earning_type_element, "Earning_Code") >>,
                 << "CF-WorktagDriverCode-Combo",
                    findtext(alloc_detail, "CF-WorktagDriverCode-Combo", "") >>,
                 << "CF-WorktagDriverCode", findtext(alloc_detail, "CF-WorktagDriverCode", "") >>,
                 << "CAllocation_StartDate",
                    findtext(alloc_detail, "CAllocation_StartDate", "") >>,
                 << "Distribution_Percent", findtext(alloc_detail, "Distribution_Percent", "") >>,
                 << "Costing_Company_Reference_ID",
                    costing_typed_id(costing_company_element, "Company_Reference_ID") >>,
                 << "Allocation_WID", findtext(alloc_detail, "WID", "") >> >>)

\* The row of one AllocationDetails element: the list made of current_row_data.
costing_allocation_row(worker_data, alloc_detail) ==
    costing_row_list(costing_current_row_data(worker_data, alloc_detail))

\* A variant of the loop body in which the rows of an entry share one dictionary (no
\* copy per AllocationDetails element): every row shows the last element's values.
costing_entry_rows_aliased(report_entry, file_modification_date) ==
    LET worker_data == costing_worker_data(report_entry, file_modification_date)
        allocation_details_elements == findall(report_entry, "AllocationDetails")
        n == Len(allocation_details_elements)
    IN  IF allocation_details_elements # << >>
        THEN [i \in 1..n |-> costing_allocation_row(worker_data, allocation_details_elements[n])]
        ELSE << costing_row_list(
                  PutAll(worker_data,
                    [i \in 1..Len(costing_allocation_keys) |->
                        << costing_allocation_keys[i], "" >>])) >>

\* The body of the loop over the Report_Entry elements: the current_row_data of each
\* row appended for one entry.
costing_entry_data(report_entry, file_modification_date) ==
    LET worker_data == costing_worker_data(report_entry, file_modification_date)
        allocation_details_elements == findall(report_entry, "AllocationDetails")
    IN  IF allocation_details_elements # << >>
        THEN [i \in 1..Len(allocation_details_elements) |->
                 costing_current_row_data(worker_data, allocation_details_elements[i])]
        ELSE << PutAll(worker_data,
                    [i \in 1..Len(costing_allocation_keys) |->
                        << costing_allocation_keys[i], "" >>]) >>

\* The rows (lists of cell values) appended to all_rows for one entry.
costing_entry_rows(report_entry, file_modification_date) ==
    LET data == costing_entry_data(report_entry, file_modification_date)
    IN  [i \in 1..Len(data) |-> costing_row_list(data[i])]

(***************************************************************************)
(* xml_parser_position_compensation.py                                     *)
(***************************************************************************)
\* get_text: element.find(path).text, the default when the element or the match is None
\* (AttributeError); the text of a match without text is None.
get_text_compensation(element, path, default) ==
    IF IsNone(element) THEN default
    ELSE IF IsNone(find(element, path)) THEN default
    ELSE find(element, path).text

\* get_attribute with attribute_name 'Descriptor'.
get_attribute_compensation(element, path, default) ==
    IF path # << >> /\ IsNone(element) THEN default
    ELSE LET target_element == IF path = << >> THEN element ELSE find(element, path)
         IN  IF ~IsNone(target_element)
             THEN IF target_element.Descriptor # None THEN target_element.Descriptor
                  ELSE default
             ELSE default

compensation_headers ==
    << "Position_ID", "Employee_ID",
       "Job_Family_Group_Descriptor", "Job_Family_Group_WID", "Job_Family_Group_Job_Family_ID",
       "CF_Staffing_Status_Descriptor", "CF_Staffing_Status_WID",
       "CF_Staffing_Status_Staffing_Interface_Status_for_CRF_ID",
       "CF_JobCode", "Terminated_based_on_report_date",
       "Compensation_Element_Descriptor", "Compensation_Element_WID",
       "Compensation_Element_Compensation_Element_ID",
       "Annualized_Amount",
       "Updated_Date" >>

\* worker_group_data of one Report_Entry, Updated_Date included: a key is set only
\* where its anchor element exists.
compensation_worker_group_data(report_entry, file_modification_date) ==
    LET worker_group_element == find(report_entry, << "Worker_group" >>)
        job_family_group_el == find(worker_group_element, << "Job_Family_Group" >>)
        cf_staffing_status_el == find(worker_group_element, << "CF-Staffing_Status" >>)
        worker_group_data ==
            IF ~IsNone(worker_group_element)
            THEN PutAll(EmptyDict,
                   << << "Position_ID",
                         get_text_compensation(worker_group_element, << "Position_ID" >>, "") >>,
                      << "Employee_ID",
                         get_text_compensation(worker_group_element, << "Employee_ID" >>, "") >> >>
                   \o (IF ~IsNone(job_family_group_el)
                       THEN << << "Job_Family_Group_Descriptor",
                                  get_attribute_compensation(job_family_group_el, << >>, "") >>,
                               << "Job_Family_Group_WID",
                                  get_typed_id_text_compensation(job_family_group_el, << >>,
                                                                 "WID", "") >>,
                               << "Job_Family_Group_Job_Family_ID",
                                  get_typed_id_text_compensation(job_family_group_el, << >>,
                                                                 "Job_Family_ID", "") >> >>
                       ELSE << >>)
                   \o (IF ~IsNone(cf_staffing_status_el)
                       THEN << << "CF_Staffing_Status_Descriptor",
                                  get_attribute_compensation(cf_staffing_status_el, << >>, "") >>,
                               << "CF_Staffing_Status_WID",
                                  get_typed_id_text_compensation(cf_staffing_status_el, << >>,
                                                                 "WID", "") >>,
                               << "CF_Staffing_Status_Staffing_Interface_Status_for_CRF_ID",
                                  get_typed_id_text_compensation(cf_staffing_status_el, << >>,
                                      "Staffing_Interface_Status_for_CRF_ID", "") >> >>
                       ELSE << >>)
                   \o << << "CF_JobCode",
                            get_text_compensation(worker_group_element, << "CF-JobCode" >>, "") >>,
                         << "Terminated_based_on_report_date",
                            get_text_compensation(worker_group_element,
                                << "Terminated__based_on_report_date_" >>, "") >> >>)
            ELSE EmptyDict
    IN  Put(worker_group_data, "Updated_Date", file_modification_date)

\* The row of one Compensation_Plan_Assignments element.
compensation_assignment_row(worker_group_data, comp_assignment_el) ==
    LET comp_element_el == find(comp_assignment_el, << "Compensation_Element" >>)
    IN  PutAll(worker_group_data,
          (IF ~IsNone(comp_element_el)
           THEN << << "Compensation_Element_Descriptor",
                      get_attribute_compensation(comp_element_el, << >>, "") >>,
                   << "Compensation_Element_WID",
                      get_typed_id_text_compensation(comp_element_el, << >>, "WID", "") >>,
                   << "Compensation_Element_Compensation_Element_ID",
                      get_typed_id_text_compensation(comp_element_el, << >>,
                                                     "Compensation_Element_ID", "") >> >>
           ELSE << >>)
          \o << << "Annualized_Amount",
                   get_text_compensation(comp_assignment_el, << "Annualized_Amount" >>, "") >> >>)

\* A variant of the loop body without the copy: every row of the entry is the one
\* dictionary worker_group_data, which each Compensation_Plan_Assignments element
\* writes into.
compensation_entry_rows_shared(report_entry, file_modification_date) ==
    LET worker_group_element == find(report_entry, << "Worker_group" >>)
        comp_assignments == findall(report_entry, "Compensation_Plan_Assignments")
        shared[i \in 0..Len(comp_assignments)] ==
            IF i = 0 THEN compensation_worker_group_data(report_entry, file_modification_date)
            ELSE compensation_assignment_row(shared[i - 1], comp_assignments[i])
        empty_comp_row ==
            [h \in (DOMAIN shared[0]) \cup Range(compensation_headers) |->
                Get(shared[0], h, "")]
    IN  [i \in 1..Len(comp_assignments) |-> shared[Len(comp_assignments)]]
        \o (IF ~IsNone(worker_group_element) /\ comp_assignments = << >>
            THEN << empty_comp_row >> ELSE << >>)

\* The body of the loop over the Report_Entry elements: the rows (dictionaries)
\* appended to all_rows_data for one entry.
compensation_entry_rows(report_entry, file_modification_date) ==
    LET worker_group_element == find(report_entry, << "Worker_group" >>)
        worker_group_data ==
            compensation_worker_group_data(report_entry, file_modification_date)
        comp_assignments == findall(report_entry, "Compensation_Plan_Assignments")
        comp_assignments_found == comp_assignments # << >>
        empty_comp_row ==
            [h \in (DOMAIN worker_group_data) \cup Range(compensation_headers) |->
                Get(worker_group_data, h, "")]
    IN  [i \in 1..Len(comp_assignments) |->
            compensation_assignment_row(worker_group_data, comp_assignments[i])]
        \o (IF ~IsNone(worker_group_element) /\ ~comp_assignments_found
            THEN << empty_comp_row >> ELSE << >>)

(***************************************************************************)
(* xml_parser_worktag_grant.py                                             *)
(***************************************************************************)
\* A variant of get_text without the test for a None element: element.find raises
\* AttributeError, shown here as the result.
get_text_grant_unguarded(element, path, default) ==
    IF IsNone(element) THEN "AttributeError"
    ELSE LET node == find(element, path)
         IN  IF ~IsNone(node) /\ node.text # None THEN node.text ELSE default

\* get_text of xml_parser_worktag_grant.py: the text of the first match of the path, the
\* default when the element is None, nothing matches or the match has no text.
get_text_grant(element, path, default) ==
    IF IsNone(element) THEN default
    ELSE LET node == find(element, path)
         IN  IF ~IsNone(node) /\ node.text # None THEN node.text ELSE default

\* get_attribute of xml_parser_worktag_grant.py with attribute_name 'Descriptor'.
get_attribute_grant(element, path, default) ==
    IF IsNone(element) THEN default
    ELSE LET target_element == IF path = << >> THEN element ELSE find(element, path)
         IN  IF ~IsNone(target_element)
             THEN IF target_element.Descriptor # None THEN target_element.Descriptor
                  ELSE default
             ELSE default

grant_headers ==
    << "Code_Description_Descriptor", "Code_Description_WID", "Code_Description_Grant_ID",
       "Code",
       "Parent",
       "Grant_Description",
       "Grant_Cost_Center_Descriptor", "Grant_Cost_Center_WID",
       "Grant_Cost_Center_Organization_Reference_ID",
       "Grant_Cost_Center_Cost_Center_Reference_ID",
       "Included_in_Grant_Hierarchies_Descriptor", "Included_in_Grant_Hierarchies_WID",
       "Included_in_Grant_Hierarchies_Grant_Hierarchy_ID",
       "Institution_Hierarchy_Node_Grants_Descriptor", "Institution_Hierarchy_Node_Grants_WID",
       "Institution_Hierarchy_Node_Grants_Grant_Hierarchy_ID",
       "Unit_Descriptor", "Unit_WID", "Unit_Organization_Reference_ID",
       "Unit_Custom_Organization_Reference_ID",
       "Worktag_Fund_Descriptor", "Worktag_Fund_WID", "Worktag_Fund_ID",
       "Worktag_Function_Descriptor", "Worktag_Function_WID",
       "Worktag_Function_Organization_Reference_ID",
       "Worktag_Function_Custom_Organization_Reference_ID",
       "Worktag_Unit_Descriptor", "Worktag_Unit_WID", "Worktag_Unit_Organization_Reference_ID",
       "Worktag_Unit_Custom_Organization_Reference_ID",
       "Worktag_Cost_Center_Descriptor", "Worktag_Cost_Center_WID",
       "Worktag_Cost_Center_Organization_Reference_ID",
       "Worktag_Cost_Center_Cost_Center_Reference_ID",
       "Grant_Manager_Descriptor", "Grant_Manager_WID", "Grant_Manager_Employee_ID",
       "Grant_Accountant_Descriptor", "Grant_Accountant_WID", "Grant_Accountant_Employee_ID",
       "Grant_Owner_Descriptor", "Grant_Owner_WID", "Grant_Owner_Employee_ID",
       "Has_Program", "Has_Grant_Cost_Center", "Has_Program_Cost_Center",
       "Company_Descriptor", "Company_WID", "Company_Organization_Reference_ID",
       "Company_Company_Reference_ID",
       "Owner_Descriptor", "Owner_WID", "Owner_Employee_ID",
       "Inactive",
       "Fund_Code",
       "Function_Code",
       "Unit_Code",
       "Updated_Date" >>

\* The Descriptor values of the documents that begin with one of the four prefixes the
\* Worktags loop tests; every other string begins with none of them.
DescriptorPrefix ==
    [d \in {"Fund: F1", "Fund: F2", "Function: FN1", "Unit: U1", "Cost Center: CC1"} |->
        CASE d \in {"Fund: F1", "Fund: F2"} -> "Fund:"
          [] d = "Function: FN1" -> "Function:"
          [] d = "Unit: U1" -> "Unit:"
          [] d = "Cost Center: CC1" -> "Cost Center:"]

\* descriptor.startswith(prefix)
startswith(descriptor, prefix) ==
    descriptor \in DOMAIN DescriptorPrefix /\ DescriptorPrefix[descriptor] = prefix

\* The assignments one iteration of the Worktags loop makes.
grant_worktag_assignments(worktag_el) ==
    LET descriptor == get_attribute_grant(worktag_el, << >>, "")
        T(id_type_value) == get_typed_id_text_grant(worktag_el, << >>, id_type_value, "")
    IN  IF descriptor = "" THEN << >>
        ELSE IF startswith(descriptor, "Fund:")
        THEN << << "Worktag_Fund_Descriptor", descriptor >>,
                << "Worktag_Fund_WID", T("WID") >>,
                << "Worktag_Fund_ID", T("Fund_ID") >> >>
        ELSE IF startswith(descriptor, "Function:")
        THEN << << "Worktag_Function_Descriptor", descriptor >>,
                << "Worktag_Function_WID", T("WID") >>,
                << "Worktag_Function_Organization_Reference_ID",
                   T("Organization_Reference_ID") >>,
                << "Worktag_Function_Custom_Organization_Reference_ID",
                   T("Custom_Organization_Reference_ID") >> >>
        ELSE IF startswith(descriptor, "Unit:")
        THEN << << "Worktag_Unit_Descriptor", descriptor >>,
                << "Worktag_Unit_WID", T("WID") >>,
                << "Worktag_Unit_Organization_Reference_ID", T("Organization_Reference_ID") >>,
                << "Worktag_Unit_Custom_Organization_Reference_ID",
                   T("Custom_Organization_Reference_ID") >> >>
        ELSE IF startswith(descriptor, "Cost Center:")
        THEN << << "Worktag_Cost_Center_Descriptor", descriptor >>,
                << "Worktag_Cost_Center_WID", T("WID") >>,
                << "Worktag_Cost_Center_Organization_Reference_ID",
                   T("Organization_Reference_ID") >>,
                << "Worktag_Cost_Center_Cost_Center_Reference_ID",
                   T("Cost_Center_Reference_ID") >> >>
        ELSE << >>

\* A variant of the loop in which the first Worktags element of a prefix wins: the
\* assignments of an element are applied before those of the elements that precede it.
grant_worktags_loop_first_wins(worktag_els) ==
    LET F[i \in 0..Len(worktag_els)] ==
            IF i = 0 THEN << >>
            ELSE grant_worktag_assignments(worktag_els[i]) \o F[i - 1]
    IN  F[Len(worktag_els)]

RECURSIVE grant_worktags_loop(_)
\* for worktag_el in report_entry.findall('wd:Worktags', NAMESPACE): the assignments of
\* all iterations, in order.
grant_worktags_loop(worktag_els) ==
    IF worktag_els = << >> THEN << >>
    ELSE grant_worktag_assignments(Head(worktag_els)) \o grant_worktags_loop(Tail(worktag_els))

\* The body of the loop over the Report_Entry elements: the row (a dictionary) of one entry.
grant_entry_row(report_entry, file_modification_date) ==
    LET A(el) == get_attribute_grant(el, << >>, "")
        T(el, id_type_value) == get_typed_id_text_grant(el, << >>, id_type_value, "")
        X(path) == get_text_grant(report_entry, path, "")
        cd_el == find(report_entry, << "Code_Description" >>)
        gcc_el == find(report_entry, << "Grant_Cost_Center" >>)
        iigh_el == find(report_entry, << "Included_in_Grant_Hierarchies" >>)
        ihng_el == find(report_entry, << "Institution_Hierarchy_Node_-_Grants" >>)
        unit_el == find(report_entry, << "Unit" >>)
        gm_el == find(report_entry, << "Grant_Manager" >>)
        ga_el == find(report_entry, << "Grant_Accountant" >>)
        go_el == find(report_entry, << "Grant_Owner" >>)
        comp_el == find(report_entry, << "Company" >>)
        owner_el == find(report_entry, << "Owner" >>)
    IN  PutAll([h \in Range(grant_headers) |-> ""],
          << << "Updated_Date", file_modification_date >>,
             << "Code_Description_Descriptor", A(cd_el) >>,
             << "Code_Description_WID", T(cd_el, "WID") >>,
             << "Code_Description_Grant_ID", T(cd_el, "Grant_ID") >>,
             << "Code", X(<< "Code" >>) >>,
             << "Parent", X(<< "Parent" >>) >>,
             << "Grant_Description", X(<< "Grant_Description" >>) >>,
             << "Grant_Cost_Center_Descriptor", A(gcc_el) >>,
             << "Grant_Cost_Center_WID", T(gcc_el, "WID") >>,
             << "Grant_Cost_Center_Organization_Reference_ID",
                T(gcc_el, "Organization_Reference_ID") >>,
             << "Grant_Cost_Center_Cost_Center_Reference_ID",
                T(gcc_el, "Cost_Center_Reference_ID") >>,
             << "Included_in_Grant_Hierarchies_Descriptor", A(iigh_el) >>,
             << "Included_in_Grant_Hierarchies_WID", T(iigh_el, "WID") >>,
             << "Included_in_Grant_Hierarchies_Grant_Hierarchy_ID",
                T(iigh_el, "Grant_Hierarchy_ID") >>,
             << "Institution_Hierarchy_Node_Grants_Descriptor", A(ihng_el) >>,
             << "Institution_Hierarchy_Node_Grants_WID", T(ihng_el, "WID") >>,
             << "Institution_Hierarchy_Node_Grants_Grant_Hierarchy_ID",
                T(ihng_el, "Grant_Hierarchy_ID") >>,
             << "Unit_Descriptor", A(unit_el) >>,
             << "Unit_WID", T(unit_el, "WID") >>,
             << "Unit_Organization_Reference_ID", T(unit_el, "Organization_Reference_ID") >>,
             << "Unit_Custom_Organization_Reference_ID",
                T(unit_el, "Custom_Organization_Reference_ID") >> >>
          \o grant_worktags_loop(findall(report_entry, "Worktags"))
          \o << << "Grant_Manager_Descriptor", A(gm_el) >>,
                << "Grant_Manager_WID", T(gm_el, "WID") >>,
                << "Grant_Manager_Employee_ID", T(gm_el, "Employee_ID") >>,
                << "Grant_Accountant_Descriptor", A(ga_el) >>,
                << "Grant_Accountant_WID", T(ga_el, "WID") >>,
                << "Grant_Accountant_Employee_ID", T(ga_el, "Employee_ID") >>,
                << "Grant_Owner_Descriptor", A(go_el) >>,
                << "Grant_Owner_WID", T(go_el, "WID") >>,
                << "Grant_Owner_Employee_ID", T(go_el, "Employee_ID") >>,
                << "Has_Program", X(<< "Has_Program" >>) >>,
                << "Has_Grant_Cost_Center", X(<< "Has_Grant_Cost_Center" >>) >>,
                << "Has_Program_Cost_Center", X(<< "Has_Program_Cost_Center" >>) >>,
                << "Company_Descriptor", A(comp_el) >>,
                << "Company_WID", T(comp_el, "WID") >>,
                << "Company_Organization_Reference_ID",
                   T(comp_el, "Organization_Reference_ID") >>,
                << "Company_Company_Reference_ID", T(comp_el, "Company_Reference_ID") >>,
                << "Owner_Descriptor", A(owner_el) >>,
                << "Owner_WID", T(owner_el, "WID") >>,
                << "Owner_Employee_ID", T(owner_el, "Employee_ID") >>,
                << "Inactive", X(<< "Inactive" >>) >>,
                << "Fund_Code", X(<< "Fund_group", "Fund_Code" >>) >>,
                << "Function_Code", X(<< "Function_group", "Function_Code" >>) >>,
                << "Unit_Code", X(<< "Unit_group", "Unit_Code" >>) >> >>)

\* A variant that appends a row for each Worktags element of the entry.
grant_entry_rows_per_worktag(report_entry, file_modification_date) ==
    [i \in 1..Max(1, Len(findall(report_entry, "Worktags"))) |->
        grant_entry_row(report_entry, file_modification_date)]

\* The rows appended to all_rows_data for one entry.
grant_entry_rows(report_entry, file_modification_date) ==
    << grant_entry_row(report_entry, file_modification_date) >>

(***************************************************************************)
(* xml_parser_worktag_program.py                                           *)
(***************************************************************************)
\* get_text of xml_parser_worktag_program.py: the text of the first match of the path, the default when the
\* element is None, nothing matches or the match has no text.
get_text_program(element, path, default) ==
    IF IsNone(element) THEN default
    ELSE LET node == find(element, path)
         IN  IF ~IsNone(node) /\ node.text # None THEN node.text ELSE default

\* get_attribute of xml_parser_worktag_program.py with attribute_name 'Descriptor'.
get_attribute_program(element, path, default) ==
    IF IsNone(element) THEN default
    ELSE LET target_element == IF path = << >> THEN element ELSE find(element, path)
         IN  IF ~IsNone(target_element)
             THEN IF target_element.Descriptor # None THEN target_element.Descriptor
                  ELSE default
             ELSE default

\* A variant of the header list without the three code columns.
program_headers_without_codes ==
    << "Code_Description", "Cost_Center_Parent", "Code", "Program_Name",
       "Parent_Cost_Center_Descriptor", "Parent_Cost_Center_WID",
       "Parent_Cost_Center_Organization_Reference_ID",
       "Parent_Cost_Center_Cost_Center_Reference_ID",
       "Included_in_Program_Hierarchies_Descriptor", "Included_in_Program_Hierarchies_WID",
       "Included_in_Program_Hierarchies_Program_Hierarchy_ID",
       "Unit_Descriptor", "Unit_WID", "Unit_Organization_Reference_ID",
       "Unit_Custom_Organization_Reference_ID",
       "Fund_Descriptor", "Fund_WID", "Fund_Fund_ID",
       "Related_Function_for_Program_Descriptor", "Related_Function_for_Program_WID",
       "Related_Function_for_Program_Organization_Reference_ID",
       "Related_Function_for_Program_Custom_Organization_Reference_ID",
       "Program_Manager_Descriptor", "Program_Manager_WID", "Program_Manager_Employee_ID",
       "Owner_Descriptor", "Owner_WID", "Owner_Employee_ID",
       "Inactive",
       "Updated_Date" >>

\* headers of xml_parser_worktag_program.py
program_headers ==
    << "Code_Description", "Cost_Center_Parent", "Code", "Program_Name",
       "Parent_Cost_Center_Descriptor", "Parent_Cost_Center_WID",
       "Parent_Cost_Center_Organization_Reference_ID",
       "Parent_Cost_Center_Cost_Center_Reference_ID",
       "Included_in_Program_Hierarchies_Descriptor", "Included_in_Program_Hierarchies_WID",
       "Included_in_Program_Hierarchies_Program_Hierarchy_ID",
       "Unit_Descriptor", "Unit_WID", "Unit_Organization_Reference_ID",
       "Unit_Custom_Organization_Reference_ID",
       "Fund_Descriptor", "Fund_WID", "Fund_Fund_ID",
       "Related_Function_for_Program_Descriptor", "Related_Function_for_Program_WID",
       "Related_Function_for_Program_Organization_Reference_ID",
       "Related_Function_for_Program_Custom_Organization_Reference_ID",
       "Program_Manager_Descriptor", "Program_Manager_WID", "Program_Manager_Employee_ID",
       "Owner_Descriptor", "Owner_WID", "Owner_Employee_ID",
       "Inactive", "Fund_Code", "Function_Code", "Unit_Code",
       "Updated_Date" >>

\* The body of the loop over the Report_Entry elements: the row (a dictionary) of one entry.
program_entry_row(report_entry, file_modification_date) ==
    LET A(el) == get_attribute_program(el, << >>, "")
        T(el, id_type_value) == get_typed_id_text_program(el, << >>, id_type_value, "")
        X(path) == get_text_program(report_entry, path, "")
        pcc_el == find(report_entry, << "Parent_Cost_Center" >>)
        iph_el == find(report_entry, << "Included_in_Program_Hierarchies" >>)
        unit_el == find(report_entry, << "Unit" >>)
        fund_el == find(report_entry, << "Fund" >>)
        rffp_el == find(report_entry, << "Related_Function_for_Program" >>)
        pm_el == find(report_entry, << "Program_Manager" >>)
        owner_el == find(report_entry, << "Owner" >>)
    IN  PutAll([h \in Range(program_headers) |-> ""],
          << << "Updated_Date", file_modification_date >>,
             << "Code_Description", X(<< "Code_Description" >>) >>,
             << "Cost_Center_Parent", X(<< "Cost_Center_group", "Parent" >>) >>,
             << "Code", X(<< "Code" >>) >>,
             << "Program_Name", X(<< "Program_Name" >>) >>,
             << "Parent_Cost_Center_Descriptor", A(pcc_el) >>,
             << "Parent_Cost_Center_WID", T(pcc_el, "WID") >>,
             << "Parent_Cost_Center_Organization_Reference_ID",
                T(pcc_el, "Organization_Reference_ID") >>,
             << "Parent_Cost_Center_Cost_Center_Reference_ID",
                T(pcc_el, "Cost_Center_Reference_ID") >>,
             << "Included_in_Program_Hierarchies_Descriptor", A(iph_el) >>,
             << "Included_in_Program_Hierarchies_WID", T(iph_el, "WID") >>,
             << "Included_in_Program_Hierarchies_Program_Hierarchy_ID",
                T(iph_el, "Program_Hierarchy_ID") >>,
             << "Unit_Descriptor", A(unit_el) >>,
             << "Unit_WID", T(unit_el, "WID") >>,
             << "Unit_Organization_Reference_ID", T(unit_el, "Organization_Reference_ID") >>,
             << "Unit_Custom_Organization_Reference_ID",
                T(unit_el, "Custom_Organization_Reference_ID") >>,
             << "Fund_Descriptor", A(fund_el) >>,
             << "Fund_WID", T(fund_el, "WID") >>,
             << "Fund_Fund_ID", T(fund_el, "Fund_ID") >>,
             << "Related_Function_for_Program_Descriptor", A(rffp_el) >>,
             << "Related_Function_for_Program_WID", T(rffp_el, "WID") >>,
             << "Related_Function_for_Program_Organization_Reference_ID",
                T(rffp_el, "Organization_Reference_ID") >>,
             << "Related_Function_for_Program_Custom_Organization_Reference_ID",
                T(rffp_el, "Custom_Organization_Reference_ID") >>,
             << "Program_Manager_Descriptor", A(pm_el) >>,
             << "Program_Manager_WID", T(pm_el, "WID") >>,
             << "Program_Manager_Employee_ID", T(pm_el, "Employee_ID") >>,
             << "Owner_Descriptor", A(owner_el) >>,
             << "Owner_WID", T(owner_el, "WID") >>,
             << "Owner_Employee_ID", T(owner_el, "Employee_ID") >>,
             << "Inactive", X(<< "Inactive" >>) >>,
             << "Fund_Code", X(<< "Fund_group", "Fund_Code" >>) >>,
             << "Function_Code", X(<< "Function_group", "Function_Code" >>) >>,
             << "Unit_Code", X(<< "Unit_group", "Unit_Code" >>) >> >>)

\* The rows appended to all_rows_data for one entry.
program_entry_rows(report_entry, file_modification_date) ==
    << program_entry_row(report_entry, file_modification_date) >>

(***************************************************************************)
(* xml_parser_position_master.py                                           *)
(***************************************************************************)
\* get_text: element.find(path).text, the default (None) when the element or the match
\* is None (AttributeError); the text of a match without text is None.
get_text_master(element, path, default) ==
    IF IsNone(element) THEN default
    ELSE IF IsNone(find(element, path)) THEN default
    ELSE find(element, path).text

\* get_attribute of xml_parser_position_master.py with the Descriptor attribute:
\* element.find(path).get(attribute), the default on AttributeError (element or match
\* None); an element without the attribute gives None.
get_attribute_master(element, path, default) ==
    IF IsNone(element) THEN default
    ELSE IF IsNone(find(element, path)) THEN default
    ELSE find(element, path).Descriptor

get_all_field_names ==
    << "Unit_Descriptor", "Unit_ID_WID", "Unit_ID_Organization_Reference_ID",
       "Unit_ID_Custom_Organization_Reference_ID", "PositionManagement_Position_ID",
       "PositionManagement_Job_Code", "PositionManagement_Position_Title",
       "PositionManagement_Open_Position_Title", "PositionManagement_FTE",
       "PositionManagement_CF_Worker_Comp_Step_Descriptor",
       "PositionManagement_CF_Worker_Comp_Step_ID_WID",
       "PositionManagement_CF_Worker_Comp_Step_ID_Compensation_Step_ID",
       "PositionManagement_CF_CompGradeRefID",
       "PositionManagement_Staffing_Status_Descriptor",
       "PositionManagement_Staffing_Status_ID_WID",
       "PositionManagement_Staffing_Status_ID_Staffing_Interface_Status_for_CRF_ID",
       "EmployeeID", "Cost_Center_Descriptor", "Cost_Center_ID_WID",
       "Cost_Center_ID_Organization_Reference_ID",
       "Cost_Center_ID_Cost_Center_Reference_ID", "CF_CostCenterID",
       "Worker_Is_Classified", "Worker_Last_Name", "Worker_First_Name",
       "Worker_Work_Email", "Worker_BusinessTitle", "Worker_CF_TenureStatus",
       "Worker_Worker_Compensation_Grade_Descriptor",
       "Worker_Worker_Compensation_Grade_ID_WID",
       "Worker_Worker_Compensation_Grade_ID_Compensation_Grade_ID",
       "Worker_CF_Worker_Comp_Grade_WID",
       "Worker_Worker_Compensation_Grade_Profile_Descriptor",
       "Worker_Worker_Compensation_Grade_Profile_ID_WID",
       "Worker_Worker_Compensation_Grade_Profile_ID_Compensation_Grade_Profile_ID",
       "Worker_CF_Worker_Comp_Grade_Prof_WID", "Worker_SeniorityDate",
       "Worker_OriginalHireDate", "Worker_ContinuousServiceDate",
       "Worker_Eff_Date_CurrentPosition", "Worker_LastPayIncreaseDate",
       "Worker_Position_Worker_Type_Descriptor", "Worker_Position_Worker_Type_ID_WID",
       "Worker_Position_Worker_Type_ID_Employee_Type_ID", "Worker_Medicare_Flag",
       "Eligibility_Rules_Descriptor", "Eligibility_Rules_ID_WID",
       "Default_Compensation_Grade_group_Compensation_Grade_Descriptor",
       "Default_Compensation_Grade_group_Compensation_Grade_ID_WID",
       "Default_Compensation_Grade_group_Compensation_Grade_ID_Compensation_Grade_ID",
       "Default_Compensation_Grade_group_WID",
       "Default_Compensation_Grade_group_Profiles_Serialized",
       "Default_Compensation_Grade_Profile_group_CF_CompGradeProf_WID",
       "PositionJob_Job_Family_Group_Descriptor", "PositionJob_Job_Family_Group_ID_WID",
       "PositionJob_Job_Family_Group_ID_Job_Family_ID", "PositionJob_CF_IsWorkerEmpty",
       "PositionJob_CF_Step", "PositionJob_CF_MeritStep", "PositionJob_CF_MeritDate",
       "PositionRestrictions_RetirementCodeOld",
       "PositionRestrictions_Health_Insurance_Yr1_Flag",
       "PositionRestrictions_Health_Insurance_Yr2_Flag",
       "PositionRestrictions_Partial_Flag", "PositionRestrictions_Retirement_Flag",
       "PositionRestrictions_Workers_Comp_Flag",
       "PositionRestrictions_Personnel_Assessment_Flag",
       "PositionRestrictions_Unemployment_Flag", "PositionRestrictions_GroupInsFlag",
       "PositionRestrictions_Medicare_Flag_OLD", "PositionRestrictions_FICA_Flag",
       "PositionRestrictions_AG_Tort_Flag", "PositionRestrictions_Employee_Bond_Flag",
       "PositionRestrictions_Merit_Increase_Flag",
       "Retirement_Savings_Election_group_RetirementCode_Descriptor",
       "Retirement_Savings_Election_group_RetirementCode_ID_WID",
       "Retirement_Savings_Election_group_RetirementCode_ID_Defined_Contribution_Plan_ID",
       "Retirement_Savings_Election_group_RetirementCode_ID_Benefit_Plan_ID",
       "Retirement_Savings_Election_group_Employer_Contribution_Percentage",
       "Retirement_Savings_Election_group_Elected", "Updated_Date" >>

\* json.dumps(profiles): a string that determines the list it serializes.
json_dumps(profiles) == ToString(profiles)

\* profile_data of one Compensation_Grade_Profiles element.
master_profile_data(profile_elem) ==
    [Descriptor |-> profile_elem.Descriptor,
     ID_WID |-> get_typed_id_text_master(profile_elem, << >>, "WID", None),
     ID_Compensation_Grade_Profile_ID |->
         get_typed_id_text_master(profile_elem, << >>, "Compensation_Grade_Profile_ID", None)]

\* A variant that lists the profiles from the last child to the first.
master_profiles_reversed(dcg_group_element) ==
    LET profile_elems == findall(dcg_group_element, "Compensation_Grade_Profiles")
    IN  [i \in 1..Len(profile_elems) |->
            master_profile_data(profile_elems[Len(profile_elems) + 1 - i])]

\* The list profiles built from the Compensation_Grade_Profiles children of the group.
master_profiles(dcg_group_element) ==
    LET profile_elems == findall(dcg_group_element, "Compensation_Grade_Profiles")
    IN  [i \in 1..Len(profile_elems) |-> master_profile_data(profile_elems[i])]

\* The body of the loop over the Report_Entry elements: the record (a dictionary) of
\* one entry. Every block assigns only where its anchor element exists.
master_entry_record(report_entry, file_modification_date) ==
    LET T(el, id_type_value) == get_typed_id_text_master(el, << >>, id_type_value, None)
        X(el, tag) == get_text_master(el, << tag >>, None)
        Has(el) == ~IsNone(el)
        unit_element == find(report_entry, << "Unit" >>)
        pm_element == find(report_entry, << "PositionManagement" >>)
        cf_worker_comp_step == find(pm_element, << "CF-Worker_Comp_Step" >>)
        staffing_status == find(pm_element, << "Staffing_Status" >>)
        cc_element == find(report_entry, << "Cost_Center" >>)
        worker_element == find(report_entry, << "Worker" >>)
        wcg_element == find(worker_element, << "Worker_Compensation_Grade" >>)
        wcgp_element == find(worker_element, << "Worker_Compensation_Grade_Profile" >>)
        pwt_element == find(worker_element, << "Position_Worker_Type" >>)
        er_element == find(report_entry, << "Eligibility_Rules" >>)
        dcg_group_element == find(report_entry, << "Default_Compensation_Grade_group" >>)
        comp_grade_elem == find(dcg_group_element, << "Compensation_Grade" >>)
        profiles == master_profiles(dcg_group_element)
        dcgp_group_element ==
            find(report_entry, << "Default_Compensation_Grade_Profile_group" >>)
        pj_element == find(report_entry, << "PositionJob" >>)
        job_family_group == find(pj_element, << "Job_Family_Group" >>)
        pr_element == find(report_entry, << "PositionRestrictions" >>)
        rse_group_element == find(report_entry, << "Retirement_Savings_Election_group" >>)
        ret_code_elem == find(rse_group_element, << "RetirementCode" >>)
        If(cond, assignments) == IF cond THEN assignments ELSE << >>
    IN  PutAll([name \in Range(get_all_field_names) |-> None],
          << << "Updated_Date", file_modification_date >> >>
          \o If(Has(unit_element),
               << << "Unit_Descriptor", unit_element.Descriptor >>,
                  << "Unit_ID_WID", T(unit_element, "WID") >>,
                  << "Unit_ID_Organization_Reference_ID",
                     T(unit_element, "Organization_Reference_ID") >>,
                  << "Unit_ID_Custom_Organization_Reference_ID",
                     T(unit_element, "Custom_Organization_Reference_ID") >> >>)
          \o If(Has(pm_element),
               << << "PositionManagement_Position_ID", X(pm_element, "Position_ID") >>,
                  << "PositionManagement_Job_Code", X(pm_element, "Job_Code") >>,
                  << "PositionManagement_Position_Title", X(pm_element, "Position_Title") >>,
                  << "PositionManagement_Open_Position_Title",
                     X(pm_element, "Open_Position_Title") >>,
                  << "PositionManagement_FTE", X(pm_element, "FTE") >>,
                  << "PositionManagement_CF_CompGradeRefID",
                     X(pm_element, "CF-CompGradeRefID") >> >>
               \o If(Has(cf_worker_comp_step),
                    << << "PositionManagement_CF_Worker_Comp_Step_Descriptor",
                          cf_worker_comp_step.Descriptor >>,
                       << "PositionManagement_CF_Worker_Comp_Step_ID_WID",
                          T(cf_worker_comp_step, "WID") >>,
                       << "PositionManagement_CF_Worker_Comp_Step_ID_Compensation_Step_ID",
                          T(cf_worker_comp_step, "Compensation_Step_ID") >> >>)
               \o If(Has(staffing_status),
                    << << "PositionManagement_Staffing_Status_Descriptor",
                          staffing_status.Descriptor >>,
                       << "PositionManagement_Staffing_Status_ID_WID",
                          T(staffing_status, "WID") >>,
                       << "PositionManagement_Staffing_Status_ID_Staffing_Interface_Status_for_CRF_ID",
                          T(staffing_status, "Staffing_Interface_Status_for_CRF_ID") >> >>))
          \o << << "EmployeeID", X(report_entry, "EmployeeID") >> >>
          \o If(Has(cc_element),
               << << "Cost_Center_Descriptor", cc_element.Descriptor >>,
                  << "Cost_Center_ID_WID", T(cc_element, "WID") >>,
                  << "Cost_Center_ID_Organization_Reference_ID",
                     T(cc_element, "Organization_Reference_ID") >>,
                  << "Cost_Center_ID_Cost_Center_Reference_ID",
                     T(cc_element, "Cost_Center_Reference_ID") >> >>)
          \o << << "CF_CostCenterID", X(report_entry, "CF-CostCenterID") >> >>
          \o If(Has(worker_element),
               << << "Worker_Is_Classified", X(worker_element, "Is_Classified") >>,
                  << "Worker_Last_Name", X(worker_element, "Last_Name") >>,
                  << "Worker_First_Name", X(worker_element, "First_Name") >>,
                  << "Worker_Work_Email", X(worker_element, "Work_Email") >>,
                  << "Worker_BusinessTitle", X(worker_element, "BusinessTitle") >>,
                  << "Worker_CF_TenureStatus", X(worker_element, "CF-TenureStatus") >>,
                  << "Worker_SeniorityDate", X(worker_element, "SeniorityDate") >>,
                  << "Worker_OriginalHireDate", X(worker_element, "OriginalHireDate") >>,
                  << "Worker_ContinuousServiceDate",
                     X(worker_element, "ContinuousServiceDate") >>,
                  << "Worker_Eff_Date_CurrentPosition",
                     X(worker_element, "Eff_Date_CurrentPosition") >>,
                  << "Worker_LastPayIncreaseDate", X(worker_element, "LastPayIncreaseDate") >>,
                  << "Worker_Medicare_Flag", X(worker_element, "Medicare_Flag") >>,
                  << "Worker_CF_Worker_Comp_Grade_WID",
                     X(worker_element, "CF_-_Worker_Comp_Grade_WID") >>,
                  << "Worker_CF_Worker_Comp_Grade_Prof_WID",
                     X(worker_element, "CF_-_Worker_Comp_Grade_Prof_WID") >> >>
               \o If(Has(wcg_element),
                    << << "Worker_Worker_Compensation_Grade_Descriptor",
                          wcg_element.Descriptor >>,
                       << "Worker_Worker_Compensation_Grade_ID_WID", T(wcg_element, "WID") >>,
                       << "Worker_Worker_Compensation_Grade_ID_Compensation_Grade_ID",
                          T(wcg_element, "Compensation_Grade_ID") >> >>)
               \o If(Has(wcgp_element),
                    << << "Worker_Worker_Compensation_Grade_Profile_Descriptor",
                          wcgp_element.Descriptor >>,
                       << "Worker_Worker_Compensation_Grade_Profile_ID_WID",
                          T(wcgp_element, "WID") >>,
                       << "Worker_Worker_Compensation_Grade_Profile_ID_Compensation_Grade_Profile_ID",
                          T(wcgp_element, "Compensation_Grade_Profile_ID") >> >>)
               \o If(Has(pwt_element),
                    << << "Worker_Position_Worker_Type_Descriptor", pwt_element.Descriptor >>,
                       << "Worker_Position_Worker_Type_ID_WID", T(pwt_element, "WID") >>,
                       << "Worker_Position_Worker_Type_ID_Employee_Type_ID",
                          T(pwt_element, "Employee_Type_ID") >> >>))
          \o If(Has(er_element),
               << << "Eligibility_Rules_Descriptor", er_element.Descriptor >>,
                  << "Eligibility_Rules_ID_WID", T(er_element, "WID") >> >>)
          \o If(Has(dcg_group_element),
               << << "Default_Compensation_Grade_group_WID", X(dcg_group_element, "WID") >> >>
               \o If(Has(comp_grade_elem),
                    << << "Default_Compensation_Grade_group_Compensation_Grade_Descriptor",
                          comp_grade_elem.Descriptor >>,
                       << "Default_Compensation_Grade_group_Compensation_Grade_ID_WID",
                          T(comp_grade_elem, "WID") >>,
                       << "Default_Compensation_Grade_group_Compensation_Grade_ID_Compensation_Grade_ID",
                          T(comp_grade_elem, "Compensation_Grade_ID") >> >>)
               \o If(profiles # << >>,
                    << << "Default_Compensation_Grade_group_Profiles_Serialized",
                          json_dumps(profiles) >> >>))
          \o If(Has(dcgp_group_element),
               << << "Default_Compensation_Grade_Profile_group_CF_CompGradeProf_WID",
                     X(dcgp_group_element, "CF-CompGradeProf-WID") >> >>)
          \o If(Has(pj_element),
               << << "PositionJob_CF_IsWorkerEmpty", X(pj_element, "CF-IsWorkerEmpty") >>,
                  << "PositionJob_CF_Step", X(pj_element, "CF-Step") >>,
                  << "PositionJob_CF_MeritStep", X(pj_element, "CF-MeritStep") >>,
                  << "PositionJob_CF_MeritDate", X(pj_element, "CF-MeritDate") >> >>
               \o If(Has(job_family_group),
                    << << "PositionJob_Job_Family_Group_Descriptor",
                          job_family_group.Descriptor >>,
                       << "PositionJob_Job_Family_Group_ID_WID", T(job_family_group, "WID") >>,
                       << "PositionJob_Job_Family_Group_ID_Job_Family_ID",
                          T(job_family_group, "Job_Family_ID") >> >>))
          \o If(Has(pr_element),
               << << "PositionRestrictions_RetirementCodeOld",
                     X(pr_element, "RetirementCodeOld") >>,
                  << "PositionRestrictions_Health_Insurance_Yr1_Flag",
                     X(pr_element, "Health_Insurance_Yr1_Flag") >>,
                  << "PositionRestrictions_Health_Insurance_Yr2_Flag",
                     X(pr_element, "Health_Insurance_Yr2_Flag") >>,
                  << "PositionRestrictions_Partial_Flag", X(pr_element, "Partial_Flag") >>,
                  << "PositionRestrictions_Retirement_Flag", X(pr_element, "Retirement_Flag") >>,
                  << "PositionRestrictions_Workers_Comp_Flag",
                     X(pr_element, "Workers_Comp_Flag") >>,
                  << "PositionRestrictions_Personnel_Assessment_Flag",
                     X(pr_element, "Personnel_Assessment_Flag") >>,
                  << "PositionRestrictions_Unemployment_Flag",
                     X(pr_element, "Unemployment_Flag") >>,
                  << "PositionRestrictions_GroupInsFlag", X(pr_element, "GroupInsFlag") >>,
                  << "PositionRestrictions_Medicare_Flag_OLD",
                     X(pr_element, "Medicare_Flag-OLD") >>,
                  << "PositionRestrictions_FICA_Flag", X(pr_element, "FICA_Flag") >>,
                  << "PositionRestrictions_AG_Tort_Flag", X(pr_element, "AG_Tort_Flag") >>,
                  << "PositionRestrictions_Employee_Bond_Flag",
                     X(pr_element, "Employee_Bond_Flag") >>,
                  << "PositionRestrictions_Merit_Increase_Flag",
                     X(pr_element, "Merit_Increase_Flag") >> >>)
          \o If(Has(rse_group_element),
               << << "Retirement_Savings_Election_group_Employer_Contribution_Percentage",
                     X(rse_group_element, "Employer_Contribution_Percentage") >>,
                  << "Retirement_Savings_Election_group_Elected",
                     X(rse_group_element, "Elected") >> >>
               \o If(Has(ret_code_elem),
                    << << "Retirement_Savings_Election_group_RetirementCode_Descriptor",
                          ret_code_elem.Descriptor >>,
                       << "Retirement_Savings_Election_group_RetirementCode_ID_WID",
                          T(ret_code_elem, "WID") >>,
                       << "Retirement_Savings_Election_group_RetirementCode_ID_Defined_Contribution_Plan_ID",
                          T(ret_code_elem, "Defined_Contribution_Plan_ID") >>,
                       << "Retirement_Savings_Election_group_RetirementCode_ID_Benefit_Plan_ID",
                          T(ret_code_elem, "Benefit_Plan_ID") >> >>)))

\* The records appended to all_records for one entry.
master_entry_rows(report_entry, file_modification_date) ==
    << master_entry_record(report_entry, file_modification_date) >>

(***************************************************************************)
(* The rows of one entry and the csv writers of the scripts.               *)
(***************************************************************************)
\* The column list each script writes as the header.
HeadersOf(script) ==
    CASE script = Costing -> costing_headers
      [] script = Master -> get_all_field_names
      [] script = Compensation -> compensation_headers
      [] script = Grant -> grant_headers
      [] script = Program -> program_headers

\* The rows one iteration of the script's loop over the Report_Entry elements appends.
EntryRows(script, report_entry, file_modification_date) ==
    CASE script = Costing -> costing_entry_rows(report_entry, file_modification_date)
      [] script = Master -> master_entry_rows(report_entry, file_modification_date)
      [] script = Compensation -> compensation_entry_rows(report_entry, file_modification_date)
      [] script = Grant -> grant_entry_rows(report_entry, file_modification_date)
      [] script = Program -> program_entry_rows(report_entry, file_modification_date)

\* A variant of the writer's conversion that writes None as it is.
csv_cell_keeping_None(value) == value

\* The csv module writes None as the empty string and a string as itself (quoted where
\* it holds the delimiter, which does not change the cell's value).
csv_cell(value) == IF value = None THEN "" ELSE value

\* A variant of the writer that leaves out the values that are None or empty.
csv_writerow_skipping_empty(row) ==
    SelectSeq([i \in 1..Len(row) |-> csv_cell(row[i])], LAMBDA cell : cell # "")

\* csv.writer.writerow(row) for a list of values: one cell per value, in order.
csv_writerow(row) == [i \in 1..Len(row) |-> csv_cell(row[i])]

\* csv.DictWriter: a dictionary with a key outside fieldnames raises ValueError.
DictWriter_raises(fieldnames, rowdict) == ~((DOMAIN rowdict) \subseteq Range(fieldnames))

\* csv.DictWriter(fieldnames).writerow(rowdict): rowdict.get(key, '') for each key of
\* fieldnames, in order.
DictWriter_writerow(fieldnames, rowdict) ==
    csv_writerow([i \in 1..Len(fieldnames) |-> Get(rowdict, fieldnames[i], "")])

\* row_to_write = {header: data_row.get(header, '') for header in headers}
row_to_write(headers, data_row) == [h \in Range(headers) |-> Get(data_row, h, "")]

\* The line a script writes for one row: the costing script writes its lists with
\* csv.writer, the master script hands its records to DictWriter as they are, the
\* other three build row_to_write first.
DataLine(script, row) ==
    CASE script = Costing -> csv_writerow(row)
      [] script = Master -> DictWriter_writerow(get_all_field_names, row)
      [] script \in {Compensation, Grant, Program} ->
            DictWriter_writerow(HeadersOf(script), row_to_write(HeadersOf(script), row))

\* A variant of the writer's loop that leaves out a row equal to an earlier one.
DataLines_deduplicated(script, rows) ==
    LET first == { i \in 1..Len(rows) : \A j \in 1..(i - 1) : rows[j] # rows[i] }
        kept == SelectSeq([i \in 1..Len(rows) |-> i], LAMBDA i : i \in first)
    IN  [k \in 1..Len(kept) |-> DataLine(script, rows[kept[k]])]

\* The data lines written for a sequence of rows, in order.
DataLines(script, rows) == [i \in 1..Len(rows) |-> DataLine(script, rows[i])]

(***************************************************************************)
(* Bounded inputs.                                                         *)
(***************************************************************************)
\* All sequences over S of length at most n.
SeqsUpTo(S, n) == UNION { [1..k -> S] : k \in 0..n }

\* An element without attributes and children.
Leaf(tag, text) == El(tag, None, None, text, << >>)

\* An <wd:ID wd:type="..."> element; type None is an ID without the attribute.
IdEl(type, text) == El("ID", None, type, text, << >>)

\* The largest number of children of the container of a lookup.
MaxIds == 2

\* The wd:type values the lookups are asked for.
LookupTypes == {"WID", "Earning_Code"}

\* The children a container is built from: ID elements of the requested types and of a
\* type that differs in case only, with and without text, an ID without the attribute,
\* and a non-ID child that holds an ID of a requested type one level deeper.
LookupChildren ==
    { IdEl(t, x) : t \in {"WID", "wid", "Earning_Code"}, x \in {None, "A", "B"} }
    \cup { IdEl(None, "U") }
    \cup { El("Group", None, None, None, << IdEl(t, "N") >>) : t \in LookupTypes }

LookupContainers ==
    { NoElement } \cup
    { El("Container", None, None, None, kids) : kids \in SeqsUpTo(LookupChildren, MaxIds) }

(***************************************************************************)
(* Bounded documents. The leaves of a full block carry their tag as text,  *)
(* so that every column of a row has its own value.                        *)
(***************************************************************************)
\* The largest number of repeated children of one kind in an entry (AllocationDetails,
\* Compensation_Plan_Assignments, Worktags, Compensation_Grade_Profiles).
MaxChildren == 2

\* The largest number of children of the root of a document of several entries.
MaxEntries == 2

\* An element without attributes and text.
Node(tag, kids) == El(tag, None, None, None, kids)

\* Leaves with their tag as text.
Leaves(tags) == [i \in 1..Len(tags) |-> Leaf(tags[i], tags[i])]

\* A container with a Descriptor and ID children given as pairs << type, text >>.
Typed(tag, descriptor, ids) ==
    El(tag, descriptor, None, None, [i \in 1..Len(ids) |-> IdEl(ids[i][1], ids[i][2])])

Entry(kids) == Node("Report_Entry", kids)

\* The elements of a sequence at the positions of keep, in order.
KeepAt(seq, keep) ==
    LET F[i \in 0..Len(seq)] ==
            IF i = 0 THEN << >>
            ELSE IF i \in keep THEN Append(F[i - 1], seq[i]) ELSE F[i - 1]
    IN  F[Len(seq)]

\* Selections of the n blocks of an entry: all, none, one alone, all but one.
KeepSets(n) ==
    {1..n, {}} \cup { {i} : i \in 1..n } \cup { (1..n) \ {i} : i \in 1..n }

\* --- costing allocations ---
CostingWorkerEls ==
    { Node("Worker", Leaves(<< "Position_ID", "Employee_ID", "Active_Status", "Company_ID",
                               "CF-FormattedEffectiveDate", "FYStartDate", "FYEndDate" >>)),
      Node("Worker", << Leaf("Employee_ID", None), Leaf("Position_ID", "P100") >>),
      Node("Worker", << >>) }

CostingAllocation(percent, code) ==
    Node("AllocationDetails",
         << Leaf("CF-Ledger", "CF-Ledger"),
            Typed("EarningType", "Earning", << << "WID", "et-wid" >>, << "Earning_Code", code >> >>),
            Leaf("CF-WorktagDriverCode-Combo", "CF-WorktagDriverCode-Combo"),
            Leaf("CF-WorktagDriverCode", "CF-WorktagDriverCode"),
            Leaf("CAllocation_StartDate", "CAllocation_StartDate"),
            Leaf("Distribution_Percent", percent),
            Typed("Costing_Company", "Company",
                  << << "WID", "cc-wid" >>, << "Company_Reference_ID", "CSN" >> >>),
            Leaf("WID", "alloc-wid") >>)

CostingAllocationEls ==
    { CostingAllocation("60", "REG"), CostingAllocation("40", "OT"),
      Node("AllocationDetails", << Leaf("Distribution_Percent", "60") >>),
      Node("AllocationDetails", << Leaf("Distribution_Percent", "40") >>),
      Node("AllocationDetails", << Node("EarningType", << >>), Leaf("Distribution_Percent", None) >>),
      Node("AllocationDetails", << >>) }

CostingEntries ==
    { Entry(w \o a) : w \in {<< >>} \cup { << x >> : x \in CostingWorkerEls },
                      a \in SeqsUpTo(CostingAllocationEls, MaxChildren) }

CostingSmallEntries ==
    { Entry(<< >>),
      Entry(<< Node("Worker", << Leaf("Position_ID", "P100") >>),
               Node("AllocationDetails", << Leaf("Distribution_Percent", "60") >>),
               Node("AllocationDetails", << Leaf("Distribution_Percent", "40") >>) >>),
      Entry(<< Node("Worker", << Leaf("Position_ID", "P200") >>) >>) }

\* --- position compensation ---
CompensationWorkerGroupEls ==
    { Node("Worker_group",
           << Leaf("Position_ID", "Position_ID"), Leaf("Employee_ID", "Employee_ID"),
              Typed("Job_Family_Group", "Faculty",
                    << << "WID", "jfg-wid" >>, << "Job_Family_ID", "JF1" >> >>),
              Typed("CF-Staffing_Status", "Filled",
                    << << "WID", "ss-wid" >>,
                       << "Staffing_Interface_Status_for_CRF_ID", "SS1" >> >>),
              Leaf("CF-JobCode", "CF-JobCode"),
              Leaf("Terminated__based_on_report_date_", "0") >>),
      Node("Worker_group",
           << Leaf("Position_ID", None), Leaf("Employee_ID", "E2"),
              Node("Job_Family_Group", << >>) >>),
      Node("Worker_group", << >>) }

CompensationAssignment(descriptor, id, amount) ==
    Node("Compensation_Plan_Assignments",
         << Typed("Compensation_Element", descriptor,
                  << << "WID", "ce-wid" >>, << "Compensation_Element_ID", id >> >>),
            Leaf("Annualized_Amount", amount) >>)

CompensationAssignmentEls ==
    { CompensationAssignment("Base", "CE1", "1000"),
      CompensationAssignment("Bonus", "CE2", "2000"),
      Node("Compensation_Plan_Assignments", << Leaf("Annualized_Amount", "500") >>),
      Node("Compensation_Plan_Assignments",
           << Node("Compensation_Element", << >>), Leaf("Annualized_Amount", None) >>),
      Node("Compensation_Plan_Assignments", << >>) }

CompensationEntries ==
    { Entry(w \o a) : w \in {<< >>} \cup { << x >> : x \in CompensationWorkerGroupEls },
                      a \in SeqsUpTo(CompensationAssignmentEls, MaxChildren) }

CompensationSmallEntries ==
    { Entry(<< >>),
      Entry(<< Node("Worker_group", << Leaf("Position_ID", "P100") >>),
               Node("Compensation_Plan_Assignments", << Leaf("Annualized_Amount", "1000") >>),
               Node("Compensation_Plan_Assignments", << Leaf("Annualized_Amount", "2000") >>) >>),
      Entry(<< Node("Worker_group", << Leaf("Position_ID", "P200") >>) >>) }

\* --- shapes of the blocks of an entry ---
\* The element with its attributes, text and children removed.
Hollow(block) == El(block.tag, None, None, None, << >>)

\* The element with every child preceded by an empty twin: an ID of the same type
\* without text, or the hollow child.
Doubled(block) ==
    LET F[i \in 0..Len(block.kids)] ==
            IF i = 0 THEN << >>
            ELSE LET k == block.kids[i]
                 IN  F[i - 1] \o << IF k.tag = "ID" THEN IdEl(k.type, None) ELSE Hollow(k), k >>
    IN  El(block.tag, block.Descriptor, block.type, block.text, F[Len(block.kids)])

Shapes == {"full", "hollow", "doubled"}

Shape(mode, blocks) ==
    [i \in 1..Len(blocks) |->
        CASE mode = "full" -> blocks[i]
          [] mode = "hollow" -> Hollow(blocks[i])
          [] mode = "doubled" -> Doubled(blocks[i])]

\* The entries made of a selection of the blocks, in each shape.
BlockEntries(blocks) ==
    { Entry(KeepAt(Shape(mode, blocks), keep)) :
        mode \in Shapes, keep \in KeepSets(Len(blocks)) }

\* --- position master ---
MasterProfileEls ==
    { Typed("Compensation_Grade_Profiles", "Profile 1", << << "WID", "p1-wid" >>, << "Compensation_Grade_Profile_ID", "CGP1" >> >>),
      Typed("Compensation_Grade_Profiles", "Profile 2", << << "Compensation_Grade_Profile_ID", "CGP2" >> >>),
      Node("Compensation_Grade_Profiles", << IdEl("WID", None), IdEl("WID", "p3-wid") >>) }

MasterBlocks(profiles) ==
    << Typed("Unit", "Unit D", << << "WID", "unit-wid" >>, << "Organization_Reference_ID",
       "unit-org" >>, << "Custom_Organization_Reference_ID", "unit-cust" >> >>),
       Node("PositionManagement",
            Leaves(<< "Position_ID", "Job_Code", "Position_Title", "Open_Position_Title",
            "FTE", "CF-CompGradeRefID" >>)
            \o << Typed("CF-Worker_Comp_Step", "Step D", << << "WID", "step-wid" >>,
                  << "Compensation_Step_ID", "STEP1" >> >>),
                  Typed("Staffing_Status", "Status D", << << "WID", "status-wid" >>,
                  << "Staffing_Interface_Status_for_CRF_ID", "SS1" >> >>) >>),
       Leaf("EmployeeID", "EmployeeID"),
       Typed("Cost_Center", "CC D", << << "WID", "cc-wid" >>, << "Organization_Reference_ID",
       "cc-org" >>, << "Cost_Center_Reference_ID", "cc-ref" >> >>),
       Leaf("CF-CostCenterID", "CF-CostCenterID"),
       Node("Worker",
            Leaves(<< "Is_Classified", "Last_Name", "First_Name", "Work_Email",
            "BusinessTitle", "CF-TenureStatus", "SeniorityDate", "OriginalHireDate",
            "ContinuousServiceDate", "Eff_Date_CurrentPosition", "LastPayIncreaseDate",
            "Medicare_Flag", "CF_-_Worker_Comp_Grade_WID",
            "CF_-_Worker_Comp_Grade_Prof_WID" >>)
            \o << Typed("Worker_Compensation_Grade", "Grade D", << << "WID", "wcg-wid" >>,
                  << "Compensation_Grade_ID", "WCG1" >> >>),
                  Typed("Worker_Compensation_Grade_Profile", "Grade Profile D", << << "WID",
                  "wcgp-wid" >>, << "Compensation_Grade_Profile_ID", "WCGP1" >> >>),
                  Typed("Position_Worker_Type", "Type D", << << "WID", "pwt-wid" >>,
                  << "Employee_Type_ID", "ET1" >> >>) >>),
       Typed("Eligibility_Rules", "Rules D", << << "WID", "er-wid" >> >>),
       Node("Default_Compensation_Grade_group",
            << Leaf("WID", "dcg-wid"),
               Typed("Compensation_Grade", "Default Grade D", << << "WID", "dcg-cg-wid" >>,
               << "Compensation_Grade_ID", "DCG1" >> >>) >>
            \o profiles),
       Node("Default_Compensation_Grade_Profile_group",
            << Leaf("CF-CompGradeProf-WID", "CF-CompGradeProf-WID") >>),
       Node("PositionJob",
            Leaves(<< "CF-IsWorkerEmpty", "CF-Step", "CF-MeritStep", "CF-MeritDate" >>)
            \o << Typed("Job_Family_Group", "Family D", << << "WID", "jfg-wid" >>,
                  << "Job_Family_ID", "JF1" >> >>) >>),
       Node("PositionRestrictions",
            Leaves(<< "RetirementCodeOld", "Health_Insurance_Yr1_Flag",
            "Health_Insurance_Yr2_Flag", "Partial_Flag", "Retirement_Flag",
            "Workers_Comp_Flag", "Personnel_Assessment_Flag", "Unemployment_Flag",
            "GroupInsFlag", "Medicare_Flag-OLD", "FICA_Flag", "AG_Tort_Flag",
            "Employee_Bond_Flag", "Merit_Increase_Flag" >>)),
       Node("Retirement_Savings_Election_group",
            Leaves(<< "Employer_Contribution_Percentage", "Elected" >>)
            \o << Typed("RetirementCode", "Plan D", << << "WID", "rc-wid" >>,
                  << "Defined_Contribution_Plan_ID", "DC1" >>, << "Benefit_Plan_ID",
                  "BP1" >> >>) >>) >>

MasterEntries ==
    BlockEntries(MasterBlocks(<< >>))
    \cup { Entry(MasterBlocks(profiles)) : profiles \in SeqsUpTo(MasterProfileEls, MaxChildren) }
    \cup { Entry(<< Node("Default_Compensation_Grade_group", profiles) >>) :
             profiles \in SeqsUpTo(MasterProfileEls, MaxChildren) }

MasterSmallEntries ==
    { Entry(<< >>),
      Entry(<< Leaf("EmployeeID", "E1") >>),
      Entry(<< Leaf("EmployeeID", "E2"), Node("Worker", << Leaf("Last_Name", "L2") >>) >>) }

\* --- worktag grant ---
GrantWorktagEls ==
    { Typed("Worktags", "Fund: F1", << << "WID", "f1-wid" >>, << "Fund_ID", "F1" >> >>),
      Typed("Worktags", "Fund: F2", << << "Fund_ID", "F2" >> >>),
      Typed("Worktags", "Function: FN1", << << "WID", "fn-wid" >>,
      << "Organization_Reference_ID", "fn-org" >>, << "Custom_Organization_Reference_ID",
      "fn-cust" >> >>),
      Typed("Worktags", "Unit: U1", << << "WID", "u-wid" >>, << "Organization_Reference_ID",
      "u-org" >>, << "Custom_Organization_Reference_ID", "u-cust" >> >>),
      Typed("Worktags", "Cost Center: CC1", << << "WID", "c-wid" >>,
      << "Organization_Reference_ID", "c-org" >>, << "Cost_Center_Reference_ID",
      "c-ref" >> >>),
      Typed("Worktags", "Program: PG1", << << "WID", "pg-wid" >> >>),
      Typed("Worktags", "", << << "WID", "e-wid" >>, << "Fund_ID", "E1" >> >>),
      Node("Worktags", << IdEl("WID", "x-wid") >>) }

GrantBlocks ==
    << Typed("Code_Description", "Grant D", << << "WID", "cd-wid" >>, << "Grant_ID",
       "GR1" >> >>),
       Leaf("Code", "Code"), Leaf("Parent", "Parent"),
       Leaf("Grant_Description", "Grant_Description"),
       Typed("Grant_Cost_Center", "GCC D", << << "WID", "gcc-wid" >>,
       << "Organization_Reference_ID", "gcc-org" >>, << "Cost_Center_Reference_ID",
       "gcc-ref" >> >>),
       Typed("Included_in_Grant_Hierarchies", "IIGH D", << << "WID", "iigh-wid" >>,
       << "Grant_Hierarchy_ID", "GH1" >> >>),
       Typed("Institution_Hierarchy_Node_-_Grants", "IHNG D", << << "WID", "ihng-wid" >>,
       << "Grant_Hierarchy_ID", "GH2" >> >>),
       Typed("Unit", "Unit D", << << "WID", "unit-wid" >>, << "Organization_Reference_ID",
       "unit-org" >>, << "Custom_Organization_Reference_ID", "unit-cust" >> >>),
       Typed("Grant_Manager", "GM D", << << "WID", "gm-wid" >>, << "Employee_ID",
       "GM1" >> >>),
       Typed("Grant_Accountant", "GA D", << << "WID", "ga-wid" >>, << "Employee_ID",
       "GA1" >> >>),
       Typed("Grant_Owner", "GO D", << << "WID", "go-wid" >>, << "Employee_ID", "GO1" >> >>),
       Leaf("Has_Program", "Has_Program"),
       Leaf("Has_Grant_Cost_Center", "Has_Grant_Cost_Center"),
       Leaf("Has_Program_Cost_Center", "Has_Program_Cost_Center"),
       Typed("Company", "Company D", << << "WID", "co-wid" >>,
       << "Organization_Reference_ID", "co-org" >>, << "Company_Reference_ID",
       "co-ref" >> >>),
       Typed("Owner", "Owner D", << << "WID", "ow-wid" >>, << "Employee_ID", "OW1" >> >>),
       Leaf("Inactive", "Inactive"),
       Node("Fund_group", << Leaf("Fund_Code", "Fund_Code") >>),
       Node("Function_group", << Leaf("Function_Code", "Function_Code") >>),
       Node("Unit_group", << Leaf("Unit_Code", "Unit_Code") >>) >>

GrantEntries ==
    BlockEntries(GrantBlocks)
    \cup { Entry(b \o worktags) : b \in {<< >>, GrantBlocks},
                                  worktags \in SeqsUpTo(GrantWorktagEls, MaxChildren) }

GrantSmallEntries ==
    { Entry(<< >>),
      Entry(<< Leaf("Code", "G1") >>),
      Entry(<< Leaf("Code", "G2"), Leaf("Parent", "G1") >>) }

\* --- worktag program ---
ProgramBlocks ==
    << Leaf("Code_Description", "Code_Description"),
       Node("Cost_Center_group", << Leaf("Parent", "Parent") >>),
       Leaf("Code", "Code"), Leaf("Program_Name", "Program_Name"),
       Typed("Parent_Cost_Center", "PCC D", << << "WID", "pcc-wid" >>,
       << "Organization_Reference_ID", "pcc-org" >>, << "Cost_Center_Reference_ID",
       "pcc-ref" >> >>),
       Typed("Included_in_Program_Hierarchies", "IPH D", << << "WID", "iph-wid" >>,
       << "Program_Hierarchy_ID", "PH1" >> >>),
       Typed("Unit", "Unit D", << << "WID", "unit-wid" >>, << "Organization_Reference_ID",
       "unit-org" >>, << "Custom_Organization_Reference_ID", "unit-cust" >> >>),
       Typed("Fund", "Fund D", << << "WID", "fund-wid" >>, << "Fund_ID", "F1" >> >>),
       Typed("Related_Function_for_Program", "RFFP D", << << "WID", "rffp-wid" >>,
       << "Organization_Reference_ID", "rffp-org" >>, << "Custom_Organization_Reference_ID",
       "rffp-cust" >> >>),
       Typed("Program_Manager", "PM D", << << "WID", "pm-wid" >>, << "Employee_ID",
       "PM1" >> >>),
       Typed("Owner", "Owner D", << << "WID", "ow-wid" >>, << "Employee_ID", "OW1" >> >>),
       Leaf("Inactive", "Inactive"),
       Node("Fund_group", << Leaf("Fund_Code", "Fund_Code") >>),
       Node("Function_group", << Leaf("Function_Code", "Function_Code") >>),
       Node("Unit_group", << Leaf("Unit_Code", "Unit_Code") >>) >>

ProgramEntries ==
    BlockEntries(ProgramBlocks)
    \cup { Entry(Shape(m1, ProgramBlocks) \o Shape(m2, ProgramBlocks)) : m1, m2 \in Shapes }

ProgramSmallEntries ==
    { Entry(<< >>),
      Entry(<< Leaf("Code", "PG1") >>),
      Entry(<< Leaf("Code", "PG2"), Leaf("Program_Name", "N2") >>) }

\* --- documents ---
EntriesOf(script) ==
    CASE script = Costing -> CostingEntries
      [] script = Master -> MasterEntries
      [] script = Compensation -> CompensationEntries
      [] script = Grant -> GrantEntries
      [] script = Program -> ProgramEntries

SmallEntriesOf(script) ==
    CASE script = Costing -> CostingSmallEntries
      [] script = Master -> MasterSmallEntries
      [] script = Compensation -> CompensationSmallEntries
      [] script = Grant -> GrantSmallEntries
      [] script = Program -> ProgramSmallEntries

\* The parsed documents of a script: a root with one entry of the rich set, a root with
\* up to MaxEntries children that are small entries or an element that is no
\* Report_Entry.
DocumentsOf(script) ==
    { Node("Report_Data", << e >>) : e \in EntriesOf(script) }
    \cup { Node("Report_Data", kids) :
             kids \in SeqsUpTo(SmallEntriesOf(script) \cup { Leaf("Report_Info", "info") },
                               MaxEntries) }

\* The values of file_modification_date: a formatted date, '' when it could not be read.
ModificationDates == {"2024-03-05", ""}

(***************************************************************************)
(* SpecLookup: one call of a script's typed-ID lookup.                     *)
(***************************************************************************)
\* The values of the variables of a part of the model that a specification leaves out.
LookupIdle ==
    /\ lk_script = None /\ lk_container = NoElement /\ lk_type = None
    /\ lk_result = None /\ lk_pc = "idle"

FlattenIdle ==
    /\ fl_script = None /\ fl_root = NoElement /\ fl_date = ""
    /\ fl_done = 0 /\ fl_all_rows = << >> /\ fl_marks = << >> /\ fl_lines = << >>
    /\ fl_pc = "idle"

BatchIdle ==
    /\ b_pc = "idle" /\ b_index = 0 /\ b_input = NoElement /\ b_date = ""
    /\ b_parsed = << >> /\ b_returncode = 0 /\ b_calls = << >> /\ b_files = << >>
    /\ b_results = << >> /\ b_all_successful = TRUE /\ b_summary = None

TransferIdle ==
    /\ tr_function = None /\ tr_config = << >> /\ tr_local = << >> /\ tr_remote = << >>
    /\ tr_pc = "idle" /\ tr_items = << >> /\ tr_index = 0 /\ tr_counts = << >>
    /\ tr_calls = << >> /\ tr_printed = << >>

ConcurrentIdle ==
    /\ cc_dirs = << >> /\ cc_fs0 = << >> /\ cc_fs = << >> /\ cc_pc = << >> /\ cc_read = << >>

TwiceIdle ==
    /\ tw_script = None /\ tw_input = NoElement /\ tw_date = "" /\ tw_file = << >>
    /\ tw_outputs = << >>

HelperIdle ==
    /\ hp_script = None /\ hp_helper = None /\ hp_element = NoElement /\ hp_path = << >>
    /\ hp_result = None /\ hp_pc = "idle"

InitLookup ==
    /\ lk_script \in Scripts
    /\ lk_container \in LookupContainers
    /\ lk_type \in LookupTypes
    /\ lk_result = None
    /\ lk_pc = "call"
    /\ FlattenIdle /\ BatchIdle /\ HelperIdle /\ TwiceIdle /\ ConcurrentIdle /\ TransferIdle

LookupMaster ==
    /\ lk_pc = "call" /\ lk_script = Master
    /\ lk_result' = get_typed_id_text_master(lk_container, << >>, lk_type, None)
    /\ lk_pc' = "returned"
    /\ UNCHANGED << lk_script, lk_container, lk_type, flatten_vars, batch_vars, helper_vars,
                    twice_vars, concurrent_vars, transfer_vars >>

LookupCompensation ==
    /\ lk_pc = "call" /\ lk_script = Compensation
    /\ lk_result' = get_typed_id_text_compensation(lk_container, << >>, lk_type, "")
    /\ lk_pc' = "returned"
    /\ UNCHANGED << lk_script, lk_container, lk_type, flatten_vars, batch_vars, helper_vars,
                    twice_vars, concurrent_vars, transfer_vars >>

LookupGrant ==
    /\ lk_pc = "call" /\ lk_script = Grant
    /\ lk_result' = get_typed_id_text_grant(lk_container, << >>, lk_type, "")
    /\ lk_pc' = "returned"
    /\ UNCHANGED << lk_script, lk_container, lk_type, flatten_vars, batch_vars, helper_vars,
                    twice_vars, concurrent_vars, transfer_vars >>

LookupProgram ==
    /\ lk_pc = "call" /\ lk_script = Program
    /\ lk_result' = get_typed_id_text_program(lk_container, << >>, lk_type, "")
    /\ lk_pc' = "returned"
    /\ UNCHANGED << lk_script, lk_container, lk_type, flatten_vars, batch_vars, helper_vars,
                    twice_vars, concurrent_vars, transfer_vars >>

LookupCosting ==
    /\ lk_pc = "call" /\ lk_script = Costing
    /\ lk_result' = costing_typed_id(lk_container, lk_type)
    /\ lk_pc' = "returned"
    /\ UNCHANGED << lk_script, lk_container, lk_type, flatten_vars, batch_vars, helper_vars,
                    twice_vars, concurrent_vars, transfer_vars >>

NextLookup ==
    \/ LookupMaster
    \/ LookupCompensation
    \/ LookupGrant
    \/ LookupProgram
    \/ LookupCosting

SpecLookup == InitLookup /\ [][NextLookup]_vars

(***************************************************************************)
(* Typed-ID lookup: C9, C10.                                               *)
(***************************************************************************)
\* The direct ID children of a container whose wd:type is exactly the requested type.
MatchingIdChildren(container, type) ==
    SelectSeq(container.kids, LAMBDA k : k.tag = "ID" /\ k.type = type)

\* What a lookup that uses the ID child id yields: its text, the default when it has none.
TextOrDefault(id, default) == IF id.text = None THEN default ELSE id.text

\* C9: a typed-ID lookup returns the empty default when the container is absent, when it
\* has no ID children and when no ID child has exactly the requested type; when exactly
\* one ID child has the requested type it returns that child's text.
C9_TypedIdLookup ==
    lk_pc = "returned" =>
        LET ids == MatchingIdChildren(lk_container, lk_type)
            default == LookupDefault(lk_script)
        IN  /\ IsNone(lk_container) => lk_result = default
            /\ ~IsNone(lk_container) /\ ids = << >> => lk_result = default
            /\ ~IsNone(lk_container) /\ Len(ids) = 1 =>
                   lk_result = TextOrDefault(ids[1], default)

\* C10: with several ID children of the requested type, a typed-ID lookup uses only the
\* first one in document order: it returns its text, and the default when it has none.
C10_FirstMatchOnly ==
    lk_pc = "returned" =>
        LET ids == MatchingIdChildren(lk_container, lk_type)
        IN  ~IsNone(lk_container) /\ Len(ids) >= 2 =>
                lk_result = TextOrDefault(ids[1], LookupDefault(lk_script))

(***************************************************************************)
(* SpecFlatten: the loop of a script's parse function over the             *)
(* Report_Entry elements of one parsed document, one iteration per step,   *)
(* then the writer's loop over the rows.                                   *)
(***************************************************************************)
\* root.findall('wd:Report_Entry', NAMESPACE)
report_entries(root) == findall(root, "Report_Entry")

InitFlatten ==
    /\ fl_script \in Scripts
    /\ fl_root \in DocumentsOf(fl_script)
    /\ fl_date \in ModificationDates
    /\ fl_done = 0
    /\ fl_all_rows = << >>
    /\ fl_marks = << >>
    /\ fl_lines = << >>
    /\ fl_pc = "loop"
    /\ LookupIdle /\ BatchIdle /\ HelperIdle /\ TwiceIdle /\ ConcurrentIdle /\ TransferIdle

\* One iteration of the for loop of parse_funding_actuals_xml.
FlattenCosting ==
    /\ fl_pc = "loop" /\ fl_script = Costing
    /\ fl_done < Len(report_entries(fl_root))
    /\ fl_all_rows' = fl_all_rows
                        \o costing_entry_rows(report_entries(fl_root)[fl_done + 1], fl_date)
    /\ fl_marks' = Append(fl_marks, Len(fl_all_rows'))
    /\ fl_done' = fl_done + 1
    /\ UNCHANGED << fl_script, fl_root, fl_date, fl_lines, fl_pc, lookup_vars, batch_vars,
                    helper_vars,
                    twice_vars, concurrent_vars, transfer_vars >>

\* One iteration of the for loop of parse_workday_xml.
FlattenMaster ==
    /\ fl_pc = "loop" /\ fl_script = Master
    /\ fl_done < Len(report_entries(fl_root))
    /\ fl_all_rows' = fl_all_rows
                        \o master_entry_rows(report_entries(fl_root)[fl_done + 1], fl_date)
    /\ fl_marks' = Append(fl_marks, Len(fl_all_rows'))
    /\ fl_done' = fl_done + 1
    /\ UNCHANGED << fl_script, fl_root, fl_date, fl_lines, fl_pc, lookup_vars, batch_vars,
                    helper_vars,
                    twice_vars, concurrent_vars, transfer_vars >>

\* One iteration of the for loop of parse_xml_data (position compensation).
FlattenCompensation ==
    /\ fl_pc = "loop" /\ fl_script = Compensation
    /\ fl_done < Len(report_entries(fl_root))
    /\ fl_all_rows' = fl_all_rows
                        \o compensation_entry_rows(report_entries(fl_root)[fl_done + 1], fl_date)
    /\ fl_marks' = Append(fl_marks, Len(fl_all_rows'))
    /\ fl_done' = fl_done + 1
    /\ UNCHANGED << fl_script, fl_root, fl_date, fl_lines, fl_pc, lookup_vars, batch_vars,
                    helper_vars,
                    twice_vars, concurrent_vars, transfer_vars >>

\* One iteration of the for loop of parse_xml_data (worktag grant).
FlattenGrant ==
    /\ fl_pc = "loop" /\ fl_script = Grant
    /\ fl_done < Len(report_entries(fl_root))
    /\ fl_all_rows' = fl_all_rows
                        \o grant_entry_rows(report_entries(fl_root)[fl_done + 1], fl_date)
    /\ fl_marks' = Append(fl_marks, Len(fl_all_rows'))
    /\ fl_done' = fl_done + 1
    /\ UNCHANGED << fl_script, fl_root, fl_date, fl_lines, fl_pc, lookup_vars, batch_vars,
                    helper_vars,
                    twice_vars, concurrent_vars, transfer_vars >>

\* One iteration of the for loop of parse_xml_data (worktag program).
FlattenProgram ==
    /\ fl_pc = "loop" /\ fl_script = Program
    /\ fl_done < Len(report_entries(fl_root))
    /\ fl_all_rows' = fl_all_rows
                        \o program_entry_rows(report_entries(fl_root)[fl_done + 1], fl_date)
    /\ fl_marks' = Append(fl_marks, Len(fl_all_rows'))
    /\ fl_done' = fl_done + 1
    /\ UNCHANGED << fl_script, fl_root, fl_date, fl_lines, fl_pc, lookup_vars, batch_vars,
                    helper_vars,
                    twice_vars, concurrent_vars, transfer_vars >>

\* The loop is exhausted: the parse function returns the accumulated rows.
ReturnRows ==
    /\ fl_pc = "loop"
    /\ fl_done = Len(report_entries(fl_root))
    /\ fl_pc' = "parsed"
    /\ UNCHANGED << fl_script, fl_root, fl_date, fl_done, fl_all_rows, fl_marks, fl_lines,
                    lookup_vars, batch_vars, helper_vars,
                    twice_vars, concurrent_vars, transfer_vars >>

\* The writer's loop over the rows (writerows / writerow per row), after the header.
WriteRows ==
    /\ fl_pc = "parsed"
    /\ fl_lines' = DataLines(fl_script, fl_all_rows)
    /\ fl_pc' = "written"
    /\ UNCHANGED << fl_script, fl_root, fl_date, fl_done, fl_all_rows, fl_marks,
                    lookup_vars, batch_vars, helper_vars,
                    twice_vars, concurrent_vars, transfer_vars >>

NextFlatten ==
    \/ FlattenCosting
    \/ FlattenMaster
    \/ FlattenCompensation
    \/ FlattenGrant
    \/ FlattenProgram
    \/ ReturnRows
    \/ WriteRows

SpecFlatten == InitFlatten /\ [][NextFlatten]_vars

(***************************************************************************)
(* Rows of an entry: C4, C5, C6, C7, C8.                                   *)
(***************************************************************************)
\* The rows the loop appended for the e-th Report_Entry (e <= fl_done).
RowsOfEntry(e) ==
    SubSeq(fl_all_rows, (IF e = 1 THEN 0 ELSE fl_marks[e - 1]) + 1, fl_marks[e])

\* The cell a row gives in a column of the script's output.
ColumnIndex(script, column) ==
    CHOOSE i \in 1..Len(HeadersOf(script)) : HeadersOf(script)[i] = column

Cell(script, row, column) == DataLine(script, row)[ColumnIndex(script, column)]

\* The two scripts with an expansion rule, the element they expand and the columns the
\* expansion owns.
ExpandingScripts == {Costing, Compensation}

ExpansionTag(script) ==
    IF script = Costing THEN "AllocationDetails" ELSE "Compensation_Plan_Assignments"

ParentTag(script) == IF script = Costing THEN "Worker" ELSE "Worker_group"

ExpansionColumns(script) ==
    IF script = Costing
    THEN {"CF-Ledger", "Earning_Code", "CF-WorktagDriverCode-Combo", "CF-WorktagDriverCode",
          "CAllocation_StartDate", "Distribution_Percent", "Costing_Company_Reference_ID",
          "Allocation_WID"}
    ELSE {"Compensation_Element_Descriptor", "Compensation_Element_WID",
          "Compensation_Element_Compensation_Element_ID", "Annualized_Amount"}

\* The direct expansion children of an entry, in document order.
ExpansionChildren(script, entry) ==
    SelectSeq(entry.kids, LAMBDA k : k.tag = ExpansionTag(script))

\* C4: in the costing and compensation parsers every Report_Entry contributes exactly
\* max(1, N) rows, N the number of its direct expansion children, also when the entry
\* has neither the parent block nor an expansion child.
C4_RowsPerEntry ==
    fl_script \in ExpandingScripts =>
        \A e \in 1..fl_done :
            Len(RowsOfEntry(e))
              = Max(1, Len(ExpansionChildren(fl_script, report_entries(fl_root)[e])))

\* The first child of an element with a tag (NoElement when there is none or the
\* element is absent), the text and the Descriptor of an element as a cell ('' when the
\* element is absent or has none), the text of the first ID child of a type.
FirstChild(el, tag) ==
    LET m == SelectSeq(el.kids, LAMBDA k : k.tag = tag)
    IN  IF m = << >> THEN NoElement ELSE m[1]

TextOf(el) == IF IsNone(el) \/ el.text = None THEN "" ELSE el.text

DescriptorOf(el) == IF IsNone(el) \/ el.Descriptor = None THEN "" ELSE el.Descriptor

TypedIdOf(el, type) ==
    LET ids == MatchingIdChildren(el, type)
    IN  IF ids = << >> THEN "" ELSE TextOf(ids[1])

\* The column of the expansion child's amount and the element it is read from.
AmountColumn(script) ==
    IF script = Costing THEN "Distribution_Percent" ELSE "Annualized_Amount"

\* The entry with its expansion children reduced to the i-th one.
OnlyChild(script, entry, i) ==
    Entry(SelectSeq(entry.kids, LAMBDA k : k.tag # ExpansionTag(script))
          \o << ExpansionChildren(script, entry)[i] >>)

\* C5: an entry with N >= 1 expansion children gives N rows in the document order of
\* the children; the rows agree in every non-expansion column, the provenance column
\* included, and the expansion columns of row i are those of child i alone.
C5_ExpansionRows ==
    fl_script \in ExpandingScripts =>
        \A e \in 1..fl_done :
            LET entry == report_entries(fl_root)[e]
                children == ExpansionChildren(fl_script, entry)
                rows == RowsOfEntry(e)
                others == Range(HeadersOf(fl_script)) \ ExpansionColumns(fl_script)
            IN  Len(children) >= 1 =>
                    /\ Len(rows) = Len(children)
                    /\ \A i \in 1..Len(rows) :
                        /\ \A c \in others :
                               Cell(fl_script, rows[i], c) = Cell(fl_script, rows[1], c)
                        /\ Cell(fl_script, rows[i], "Updated_Date") = fl_date
                        /\ Cell(fl_script, rows[i], AmountColumn(fl_script))
                             = TextOf(FirstChild(children[i], AmountColumn(fl_script)))
                        /\ \A c \in ExpansionColumns(fl_script) :
                               Cell(fl_script, rows[i], c)
                                 = Cell(fl_script,
                                        EntryRows(fl_script, OnlyChild(fl_script, entry, i),
                                                  fl_date)[1], c)

\* Position_ID P100 with Distribution_Percent 60 and 40: rows (P100, 60), (P100, 40).
C5_Witness ==
    /\ fl_script = Costing /\ fl_done >= 1 /\ fl_date = "2024-03-05"
    /\ Len(RowsOfEntry(1)) = 2
    /\ \A i \in 1..2 : /\ Cell(Costing, RowsOfEntry(1)[i], "Position_ID") = "P100"
                       /\ Cell(Costing, RowsOfEntry(1)[i], "Updated_Date") = "2024-03-05"
    /\ Cell(Costing, RowsOfEntry(1)[1], "Distribution_Percent") = "60"
    /\ Cell(Costing, RowsOfEntry(1)[2], "Distribution_Percent") = "40"

\* The cell a non-expansion column of the costing and compensation outputs takes from
\* an entry: the value at the column's source where the source exists, '' otherwise.
ExpectedEntryCell(script, entry, column) ==
    LET worker == FirstChild(entry, ParentTag(script))
        jfg == FirstChild(worker, "Job_Family_Group")
        status == FirstChild(worker, "CF-Staffing_Status")
    IN  IF script = Costing
        THEN TextOf(FirstChild(worker,
                 IF column = "Worker_Company_ID" THEN "Company_ID" ELSE column))
        ELSE CASE column = "Position_ID" -> TextOf(FirstChild(worker, "Position_ID"))
               [] column = "Employee_ID" -> TextOf(FirstChild(worker, "Employee_ID"))
               [] column = "Job_Family_Group_Descriptor" -> DescriptorOf(jfg)
               [] column = "Job_Family_Group_WID" -> TypedIdOf(jfg, "WID")
               [] column = "Job_Family_Group_Job_Family_ID" -> TypedIdOf(jfg, "Job_Family_ID")
               [] column = "CF_Staffing_Status_Descriptor" -> DescriptorOf(status)
               [] column = "CF_Staffing_Status_WID" -> TypedIdOf(status, "WID")
               [] column = "CF_Staffing_Status_Staffing_Interface_Status_for_CRF_ID" ->
                      TypedIdOf(status, "Staffing_Interface_Status_for_CRF_ID")
               [] column = "CF_JobCode" -> TextOf(FirstChild(worker, "CF-JobCode"))
               [] column = "Terminated_based_on_report_date" ->
                      TextOf(FirstChild(worker, "Terminated__based_on_report_date_"))

\* C6: an entry without expansion children gives a single row whose expansion columns
\* are empty, whose provenance column is the file's date and whose other columns hold
\* the value extracted from the entry where the source exists, '' otherwise.
C6_NoExpansionRow ==
    fl_script \in ExpandingScripts =>
        \A e \in 1..fl_done :
            LET entry == report_entries(fl_root)[e]
                rows == RowsOfEntry(e)
                others == Range(HeadersOf(fl_script))
                            \ (ExpansionColumns(fl_script) \cup {"Updated_Date"})
            IN  ExpansionChildren(fl_script, entry) = << >> =>
                    /\ Len(rows) = 1
                    /\ \A c \in ExpansionColumns(fl_script) : Cell(fl_script, rows[1], c) = ""
                    /\ Cell(fl_script, rows[1], "Updated_Date") = fl_date
                    /\ \A c \in others :
                           Cell(fl_script, rows[1], c) = ExpectedEntryCell(fl_script, entry, c)

\* The number of Report_Entry children of the document root.
NumberOfEntries == Cardinality({ i \in 1..Len(fl_root.kids) : fl_root.kids[i].tag = "Report_Entry" })

\* C7: in the master, grant and program parsers every Report_Entry of the root gives
\* exactly one row, whatever repeated nested elements it holds, so the parse returns
\* and the writer writes as many rows as the root has Report_Entry elements.
C7_OneRowPerEntry ==
    fl_script \in {Master, Grant, Program} =>
        /\ \A e \in 1..fl_done : Len(RowsOfEntry(e)) = 1
        /\ fl_pc \in {"parsed", "written"} => Len(fl_all_rows) = NumberOfEntries
        /\ fl_pc = "written" => Len(fl_lines) = NumberOfEntries

\* A grant entry with several Worktags elements written as one line.
C7_Witness ==
    /\ fl_script = Grant /\ fl_pc = "written"
    /\ NumberOfEntries = 1
    /\ Len(findall(report_entries(fl_root)[1], "Worktags")) >= 2
    /\ Len(fl_lines) = 1

\* The value a row holds for the i-th column: the costing rows are lists in column
\* order, the rows of the other scripts are dictionaries.
RowValue(script, row, i) ==
    IF script = Costing THEN row[i] ELSE Get(row, HeadersOf(script)[i], "")

\* C8: every data line written has one cell for each declared column, in the declared
\* order: the cell of a column is the row's value for it, empty when the row has none,
\* and the provenance column stays in its place.
C8_FullRows ==
    fl_pc = "written" =>
        /\ Len(fl_lines) = Len(fl_all_rows)
        /\ \A k \in 1..Len(fl_lines) :
            LET headers == HeadersOf(fl_script)
            IN  /\ Len(fl_lines[k]) = Len(headers)
                /\ fl_lines[k][ColumnIndex(fl_script, "Updated_Date")] = fl_date
                /\ \A i \in 1..Len(headers) :
                       fl_lines[k][i] = csv_cell(RowValue(fl_script, fl_all_rows[k], i))

\* A compensation row without a value for the Job_Family_Group columns, written with
\* those cells empty and the date in the last cell.
C8_Witness ==
    /\ fl_script = Compensation /\ fl_pc = "written" /\ fl_date = "2024-03-05"
    /\ \E k \in 1..Len(fl_lines) :
        /\ "Job_Family_Group_WID" \notin DOMAIN fl_all_rows[k]
        /\ fl_lines[k][ColumnIndex(Compensation, "Job_Family_Group_WID")] = ""
        /\ fl_lines[k][ColumnIndex(Compensation, "Annualized_Amount")] # ""
        /\ fl_lines[k][Len(compensation_headers)] = "2024-03-05"

(***************************************************************************)
(* Spec: a batch of run_all_parsers.py. The sequencer launches the parser  *)
(* scripts one after the other; a parser's run is the sequence of steps of *)
(* its __main__ block. The configuration file is taken as loaded. What the *)
(* file system answers (the input file found at launch, whether its        *)
(* modification time can be read, whether the output file can be opened    *)
(* for writing) is chosen when the call is made.                           *)
(***************************************************************************)
\* --- output files ---
AbsentFile == [exists |-> FALSE, lines |-> << >>]

WrittenFile(lines) == [exists |-> TRUE, lines |-> lines]

\* writer.writerow(headers) / writer.writeheader()
header_line(script) == csv_writerow(HeadersOf(script))

\* A variant of the header-only write that leaves the file empty.
header_only_file_empty(script) == WrittenFile(<< >>)

\* The file after open(csv_output_file, 'w') and the header write alone.
header_only_file(script) == WrittenFile(<< header_line(script) >>)

\* The file after the header and the data rows are written.
data_file(script, rows) == WrittenFile(<< header_line(script) >> \o DataLines(script, rows))

\* An output file left by an earlier run: the header and a data line.
StaleFile(script) ==
    WrittenFile(<< header_line(script), [i \in 1..Len(HeadersOf(script)) |-> "stale"] >>)

\* The output directory before the batch: no output file yet, or every output file
\* left by an earlier run.
PriorFiles ==
    { [s \in Scripts |-> AbsentFile], [s \in Scripts |-> StaleFile(s)] }

\* --- input files ---
NoInput == [kind |-> "none", root |-> NoElement]

InputFile(kind, root) == [kind |-> kind, root |-> root]

\* The entry of the batch documents that hold one.
BatchEntries(script) == { e \in SmallEntriesOf(script) : Len(e.kids) = 1 }

\* The input file a parser finds: none, one that is not well-formed XML, one that cannot
\* be read, a well-formed document without Report_Entry (an empty root, a root with
\* another element) or with one entry.
BatchInputs(script) ==
    { InputFile("missing", NoElement), InputFile("malformed", NoElement),
      InputFile("unreadable", NoElement),
      InputFile("wellformed", Node("Report_Data", << >>)),
      InputFile("wellformed", Node("Report_Data", << Leaf("Report_Info", "info") >>)) }
    \cup { InputFile("wellformed", Node("Report_Data", << e >>)) : e \in BatchEntries(script) }

\* --- what the parse function returned ---
NotParsed == [returned |-> "nothing", rows |-> << >>]

ReturnedNone == [returned |-> "None", rows |-> << >>]

ReturnedRows(rows) == [returned |-> "rows", rows |-> rows]

\* The rows the loop over root.findall('wd:Report_Entry') accumulates.
parse_xml_data(script, root, file_modification_date) ==
    LET entries == report_entries(root)
        all_rows_data[i \in 0..Len(entries)] ==
            IF i = 0 THEN << >>
            ELSE all_rows_data[i - 1] \o EntryRows(script, entries[i], file_modification_date)
    IN  all_rows_data[Len(entries)]

\* The scripts whose parse function writes the header-only file in its except handlers.
HandlerWrites == {Compensation, Grant, Program}

\* run_script: True exactly when the process ended with return code 0.
run_script_result(returncode) == returncode = 0

\* The script the sequencer's loop is at.
CurrentScript == PARSER_SCRIPTS[b_index]

\* The calls a parser has made, with one more.
Called(call) == [b_calls EXCEPT ![CurrentScript] = @ \cup {call}]

CalledAll(calls) == [b_calls EXCEPT ![CurrentScript] = @ \cup calls]

\* What open(csv_output_file, 'w') adds to the calls: the attempt, and the IOError when
\* the file cannot be opened.
OpenCalls(ok) == IF ok THEN {"open"} ELSE {"open", "IOError"}

\* The position of the sequencer after run_script returned for the script at b_index.
AfterRun == IF b_index = Len(PARSER_SCRIPTS) THEN "summary" ELSE "loop"

InitBatch ==
    /\ b_pc = "loop"
    /\ b_index = 1
    /\ b_input = NoInput
    /\ b_date = ""
    /\ b_parsed = NotParsed
    /\ b_returncode = 0
    /\ b_calls = [s \in Scripts |-> {}]
    /\ b_files \in PriorFiles
    /\ b_results = << >>
    /\ b_all_successful = TRUE
    /\ b_summary = None
    /\ LookupIdle /\ FlattenIdle /\ HelperIdle /\ TwiceIdle /\ ConcurrentIdle /\ TransferIdle

\* A variant in which a script that is not found ends the loop over PARSER_SCRIPTS.
RunScriptNotFound_aborting ==
    /\ b_pc = "loop"
    /\ b_calls' = Called("script not found")
    /\ b_results' = Append(b_results, FALSE)
    /\ b_all_successful' = FALSE
    /\ b_pc' = "summary"
    /\ b_index' = b_index + 1
    /\ UNCHANGED << b_input, b_date, b_parsed, b_returncode, b_files, b_summary,
                    lookup_vars, flatten_vars, helper_vars, twice_vars, concurrent_vars,
                    transfer_vars >>

\* run_script: os.path.exists(script_path) is False for the script the loop is at; it
\* prints the error and returns False.
RunScriptNotFound ==
    /\ b_pc = "loop"
    /\ b_calls' = Called("script not found")
    /\ b_results' = Append(b_results, FALSE)
    /\ b_all_successful' = FALSE
    /\ b_pc' = AfterRun
    /\ b_index' = b_index + 1
    /\ UNCHANGED << b_input, b_date, b_parsed, b_returncode, b_files, b_summary,
                    lookup_vars, flatten_vars, helper_vars, twice_vars, concurrent_vars,
                    transfer_vars >>

\* run_script: subprocess.run raises; the except clause returns False.
RunScriptException ==
    /\ b_pc = "loop"
    /\ b_results' = Append(b_results, FALSE)
    /\ b_all_successful' = FALSE
    /\ b_pc' = AfterRun
    /\ b_index' = b_index + 1
    /\ UNCHANGED << b_input, b_date, b_parsed, b_returncode, b_calls, b_files, b_summary,
                    lookup_vars, flatten_vars, helper_vars,
                    twice_vars, concurrent_vars, transfer_vars >>

\* A variant of run_script that starts the parser and returns True without waiting
\* for it.
RunScriptLaunch_detached ==
    /\ b_pc = "loop"
    /\ b_input' \in BatchInputs(CurrentScript)
    /\ b_pc' = "main"
    /\ b_results' = Append(b_results, TRUE)
    /\ b_index' = IF b_index < Len(PARSER_SCRIPTS) THEN b_index + 1 ELSE b_index
    /\ UNCHANGED << b_date, b_parsed, b_returncode, b_calls, b_files,
                    b_all_successful, b_summary, lookup_vars, flatten_vars, helper_vars,
                    twice_vars, concurrent_vars, transfer_vars >>

\* run_script: subprocess.run starts the parser and waits for it.
RunScriptLaunch ==
    /\ b_pc = "loop"
    /\ b_input' \in BatchInputs(CurrentScript)
    /\ b_pc' = "main"
    /\ UNCHANGED << b_index, b_date, b_parsed, b_returncode, b_calls, b_files, b_results,
                    b_all_successful, b_summary, lookup_vars, flatten_vars, helper_vars,
                    twice_vars, concurrent_vars, transfer_vars >>

\* __main__: if not os.path.exists(xml_input_file): write the header and exit(). The
\* master script catches the IOError of the write, the other four do not.
ParserCheckInput ==
    /\ b_pc = "main"
    /\ IF b_input.kind = "missing"
       THEN \E ok \in BOOLEAN :
               /\ b_calls' = CalledAll({"exists"} \cup OpenCalls(ok))
               /\ b_files' = IF ok THEN [b_files EXCEPT ![CurrentScript] =
                                            header_only_file(CurrentScript)]
                             ELSE b_files
               /\ b_returncode' = IF ok \/ CurrentScript = Master THEN 0 ELSE 1
               /\ b_pc' = "exited"
       ELSE /\ b_calls' = Called("exists")
            /\ b_pc' = "mtime"
            /\ UNCHANGED << b_files, b_returncode >>
    /\ UNCHANGED << b_index, b_input, b_date, b_parsed, b_results, b_all_successful,
                    b_summary, lookup_vars, flatten_vars, helper_vars,
                    twice_vars, concurrent_vars, transfer_vars >>

\* A variant of the step in which a failure of getmtime ends the script with status 1.
ParserModificationDate_fatal ==
    /\ b_pc = "mtime"
    /\ \E ok \in BOOLEAN :
          /\ b_date' = IF ok THEN "2024-03-05" ELSE ""
          /\ b_pc' = IF ok THEN "parse" ELSE "exited"
          /\ b_returncode' = IF ok THEN b_returncode ELSE 1
    /\ b_calls' = Called("getmtime")
    /\ UNCHANGED << b_index, b_input, b_parsed, b_files, b_results,
                    b_all_successful, b_summary, lookup_vars, flatten_vars, helper_vars,
                    twice_vars, concurrent_vars, transfer_vars >>

\* __main__: os.path.getmtime and its formatting inside try / except Exception.
ParserModificationDate ==
    /\ b_pc = "mtime"
    /\ \E ok \in BOOLEAN : b_date' = IF ok THEN "2024-03-05" ELSE ""
    /\ b_calls' = Called("getmtime")
    /\ b_pc' = "parse"
    /\ UNCHANGED << b_index, b_input, b_parsed, b_returncode, b_files, b_results,
                    b_all_successful, b_summary, lookup_vars, flatten_vars, helper_vars,
                    twice_vars, concurrent_vars, transfer_vars >>

\* The parse function. ET.parse of a file that cannot be read raises an OSError no
\* handler catches. A ParseError makes the function return None; the compensation,
\* grant and program scripts write the header-only file in the handler, without a
\* try around the write.
ParserParse ==
    /\ b_pc = "parse"
    /\ CASE b_input.kind = "unreadable" ->
              /\ b_calls' = Called("parse")
              /\ b_returncode' = 1
              /\ b_pc' = "exited"
              /\ UNCHANGED << b_parsed, b_files >>
         [] b_input.kind = "malformed" /\ CurrentScript \notin HandlerWrites ->
              /\ b_calls' = Called("parse")
              /\ b_parsed' = ReturnedNone
              /\ b_pc' = "write"
              /\ UNCHANGED << b_returncode, b_files >>
         [] b_input.kind = "malformed" /\ CurrentScript \in HandlerWrites ->
              \E ok \in BOOLEAN :
                  /\ b_calls' = CalledAll({"parse"} \cup OpenCalls(ok))
                  /\ b_files' = IF ok THEN [b_files EXCEPT ![CurrentScript] =
                                               header_only_file(CurrentScript)]
                                ELSE b_files
                  /\ b_parsed' = IF ok THEN ReturnedNone ELSE b_parsed
                  /\ b_returncode' = IF ok THEN b_returncode ELSE 1
                  /\ b_pc' = IF ok THEN "write" ELSE "exited"
         [] b_input.kind = "wellformed" ->
              /\ b_calls' = Called("parse")
              /\ b_parsed' = ReturnedRows(parse_xml_data(CurrentScript, b_input.root, b_date))
              /\ b_pc' = "write"
              /\ UNCHANGED << b_returncode, b_files >>
    /\ UNCHANGED << b_index, b_input, b_date, b_results, b_all_successful, b_summary,
                    lookup_vars, flatten_vars, helper_vars,
                    twice_vars, concurrent_vars, transfer_vars >>

\* The end of __main__ of the costing script: write_to_csv for a list (IOError caught);
\* for None the header is written only if the output file does not exist.
WriteCosting ==
    /\ b_pc = "write" /\ CurrentScript = Costing
    /\ IF b_parsed.returned = "rows"
       THEN \E ok \in BOOLEAN :
               /\ b_calls' = CalledAll(OpenCalls(ok))
               /\ b_files' = IF ok THEN [b_files EXCEPT ![Costing] =
                                            data_file(Costing, b_parsed.rows)]
                             ELSE b_files
               /\ b_returncode' = 0
       ELSE IF ~b_files[Costing].exists
            THEN \E ok \in BOOLEAN :
                    /\ b_calls' = CalledAll(OpenCalls(ok))
                    /\ b_files' = IF ok THEN [b_files EXCEPT ![Costing] =
                                                 header_only_file(Costing)]
                                  ELSE b_files
                    /\ b_returncode' = IF ok THEN 0 ELSE 1
            ELSE /\ b_returncode' = 0
                 /\ UNCHANGED << b_calls, b_files >>
    /\ b_pc' = "exited"
    /\ UNCHANGED << b_index, b_input, b_date, b_parsed, b_results, b_all_successful,
                    b_summary, lookup_vars, flatten_vars, helper_vars,
                    twice_vars, concurrent_vars, transfer_vars >>

\* The end of __main__ of the master script: write_to_csv only if parsed_data is truthy
\* (IOError caught), nothing otherwise.
WriteMaster ==
    /\ b_pc = "write" /\ CurrentScript = Master
    /\ IF b_parsed.returned = "rows" /\ b_parsed.rows # << >>
       THEN \E ok \in BOOLEAN :
               /\ b_calls' = CalledAll(OpenCalls(ok))
               /\ b_files' = IF ok THEN [b_files EXCEPT ![Master] =
                                            data_file(Master, b_parsed.rows)]
                             ELSE b_files
       ELSE UNCHANGED << b_calls, b_files >>
    /\ b_returncode' = 0
    /\ b_pc' = "exited"
    /\ UNCHANGED << b_index, b_input, b_date, b_parsed, b_results, b_all_successful,
                    b_summary, lookup_vars, flatten_vars, helper_vars,
                    twice_vars, concurrent_vars, transfer_vars >>

\* The end of __main__ of the compensation, grant and program scripts: the rows inside
\* try / except IOError, the header alone (no try) for an empty list, nothing for None.
WriteDictRows ==
    /\ b_pc = "write" /\ CurrentScript \in HandlerWrites
    /\ IF b_parsed.returned = "rows"
       THEN \E ok \in BOOLEAN :
               /\ b_calls' = CalledAll({"exists"} \cup OpenCalls(ok))
               /\ b_files' =
                    IF ok
                    THEN [b_files EXCEPT ![CurrentScript] =
                            IF b_parsed.rows # << >>
                            THEN data_file(CurrentScript, b_parsed.rows)
                            ELSE header_only_file(CurrentScript)]
                    ELSE b_files
               /\ b_returncode' = IF ok \/ b_parsed.rows # << >> THEN 0 ELSE 1
       ELSE /\ b_returncode' = 0
            /\ UNCHANGED << b_calls, b_files >>
    /\ b_pc' = "exited"
    /\ UNCHANGED << b_index, b_input, b_date, b_parsed, b_results, b_all_successful,
                    b_summary, lookup_vars, flatten_vars, helper_vars,
                    twice_vars, concurrent_vars, transfer_vars >>

\* run_script: the process has ended; the result is recorded and the loop goes on.
RunScriptReturn ==
    /\ b_pc = "exited"
    /\ b_results' = Append(b_results, run_script_result(b_returncode))
    /\ b_all_successful' = (b_all_successful /\ run_script_result(b_returncode))
    /\ b_pc' = AfterRun
    /\ b_index' = b_index + 1
    /\ b_input' = NoInput
    /\ b_date' = ""
    /\ b_parsed' = NotParsed
    /\ b_returncode' = 0
    /\ UNCHANGED << b_calls, b_files, b_summary, lookup_vars, flatten_vars, helper_vars,
                    twice_vars, concurrent_vars, transfer_vars >>

\* The final aggregate summary.
PrintSummary ==
    /\ b_pc = "summary"
    /\ b_summary' = IF b_all_successful
                    THEN "All parsing scripts completed successfully."
                    ELSE "Some parsing scripts failed. Please check the output above for details."
    /\ b_pc' = "done"
    /\ UNCHANGED << b_index, b_input, b_date, b_parsed, b_returncode, b_calls, b_files,
                    b_results, b_all_successful, lookup_vars, flatten_vars, helper_vars,
                    twice_vars, concurrent_vars, transfer_vars >>

Next ==
    \/ RunScriptNotFound
    \/ RunScriptException
    \/ RunScriptLaunch
    \/ ParserCheckInput
    \/ ParserModificationDate
    \/ ParserParse
    \/ WriteCosting
    \/ WriteMaster
    \/ WriteDictRows
    \/ RunScriptReturn
    \/ PrintSummary

Spec == InitBatch /\ [][Next]_vars

(***************************************************************************)
(* Degraded inputs: C1, C2, C3.                                            *)
(***************************************************************************)
\* A parser's run has ended and every open of its output file succeeded.
RunEndedWritable ==
    /\ b_pc = "exited"
    /\ "IOError" \notin b_calls[CurrentScript]

\* The output file holds the header line and nothing else.
HeaderOnly(script) == b_files[script] = [exists |-> TRUE, lines |-> << HeadersOf(script) >>]

\* C1: after the run of any of the five parsers on a well-formed input without
\* Report_Entry elements (every open of the output file succeeding), the output file
\* holds exactly the header line, whatever the file held before the run.
C1_ZeroRowsHeaderOnly ==
    /\ RunEndedWritable
    /\ b_input.kind = "wellformed"
    /\ report_entries(b_input.root) = << >>
    => HeaderOnly(CurrentScript)

\* C2: after the run of any of the five parsers on an input that is not well-formed XML
\* (every open of the output file succeeding), the output file is header-only, also
\* when an output file with data rows of an earlier run existed.
C2_MalformedHeaderOnly ==
    /\ RunEndedWritable
    /\ b_input.kind = "malformed"
    => HeaderOnly(CurrentScript)

DirectIdTexts(container, type) ==
    { MatchingIdChildren(container, type)[i].text :
        i \in 1..Len(MatchingIdChildren(container, type)) }

\* C11: a typed-ID lookup looks at the direct ID children of the container only: what
\* it returns is the default or the text of a direct ID child of the requested type,
\* never the text of an ID nested deeper, in every parser, the costing parser's
\* Earning_Code and Company_Reference_ID lookups included.
C11_DirectChildrenOnly ==
    lk_pc = "returned" =>
        lk_result \in {LookupDefault(lk_script)} \cup DirectIdTexts(lk_container, lk_type)

(***************************************************************************)
(* SpecHelper: one call of a helper function of a script. The costing      *)
(* script defines none.                                                    *)
(***************************************************************************)
HelperScripts == {Master, Compensation, Grant, Program}

Helpers == {"get_text", "get_attribute", "get_typed_id_text"}

\* The default each helper declares: None in the master script, '' in the others.
HelperDefault(script) == IF script = Master THEN None ELSE ""

\* The elements passed: None, an element with an attribute, text, a typed ID and
\* children with and without text, an element with nothing.
HelperElements ==
    { NoElement,
      El("Unit", "Unit D", None, "unit text",
         << IdEl("WID", "w1"), Leaf("Child", "child text"), Leaf("Empty", None),
            Typed("Inner", "Inner D", << << "WID", "w2" >> >>) >>),
      Node("Unit", << >>) }

\* The paths passed: '.', a child with text, one without, one with typed IDs, no match.
HelperPaths == { << >>, << "Child" >>, << "Empty" >>, << "Inner" >>, << "Missing" >> }

get_text(script, element, path) ==
    CASE script = Master -> get_text_master(element, path, None)
      [] script = Compensation -> get_text_compensation(element, path, "")
      [] script = Grant -> get_text_grant(element, path, "")
      [] script = Program -> get_text_program(element, path, "")

get_attribute(script, element, path) ==
    CASE script = Master -> get_attribute_master(element, path, None)
      [] script = Compensation -> get_attribute_compensation(element, path, "")
      [] script = Grant -> get_attribute_grant(element, path, "")
      [] script = Program -> get_attribute_program(element, path, "")

get_typed_id_text(script, element, path) ==
    CASE script = Master -> get_typed_id_text_master(element, path, "WID", None)
      [] script = Compensation -> get_typed_id_text_compensation(element, path, "WID", "")
      [] script = Grant -> get_typed_id_text_grant(element, path, "WID", "")
      [] script = Program -> get_typed_id_text_program(element, path, "WID", "")

InitHelper ==
    /\ hp_script \in HelperScripts
    /\ hp_helper \in Helpers
    /\ hp_element \in HelperElements
    /\ hp_path \in HelperPaths
    /\ hp_result = None
    /\ hp_pc = "call"
    /\ LookupIdle /\ FlattenIdle /\ BatchIdle /\ TwiceIdle /\ ConcurrentIdle /\ TransferIdle

CallGetText ==
    /\ hp_pc = "call" /\ hp_helper = "get_text"
    /\ hp_result' = get_text(hp_script, hp_element, hp_path)
    /\ hp_pc' = "returned"
    /\ UNCHANGED << hp_script, hp_helper, hp_element, hp_path,
                    lookup_vars, flatten_vars, batch_vars,
                    twice_vars, concurrent_vars, transfer_vars >>

CallGetAttribute ==
    /\ hp_pc = "call" /\ hp_helper = "get_attribute"
    /\ hp_result' = get_attribute(hp_script, hp_element, hp_path)
    /\ hp_pc' = "returned"
    /\ UNCHANGED << hp_script, hp_helper, hp_element, hp_path,
                    lookup_vars, flatten_vars, batch_vars,
                    twice_vars, concurrent_vars, transfer_vars >>

CallGetTypedIdText ==
    /\ hp_pc = "call" /\ hp_helper = "get_typed_id_text"
    /\ hp_result' = get_typed_id_text(hp_script, hp_element, hp_path)
    /\ hp_pc' = "returned"
    /\ UNCHANGED << hp_script, hp_helper, hp_element, hp_path,
                    lookup_vars, flatten_vars, batch_vars,
                    twice_vars, concurrent_vars, transfer_vars >>

NextHelper ==
    \/ CallGetText
    \/ CallGetAttribute
    \/ CallGetTypedIdText

SpecHelper == InitHelper /\ [][NextHelper]_vars

(***************************************************************************)
(* Sparse documents and absent elements: C12.                              *)
(***************************************************************************)
\* The source of a column that is read once per entry: the path from the Report_Entry
\* to the element read, and what is read of it: its text, its Descriptor attribute or
\* the text of its ID of a type.
Src(column, path, kind, type) == [column |-> column, path |-> path, kind |-> kind, type |-> type]

CostingSources ==
    { Src("Position_ID", << "Worker", "Position_ID" >>, "text", None),
      Src("Employee_ID", << "Worker", "Employee_ID" >>, "text", None),
      Src("Active_Status", << "Worker", "Active_Status" >>, "text", None),
      Src("Worker_Company_ID", << "Worker", "Company_ID" >>, "text", None),
      Src("CF-FormattedEffectiveDate",
          << "Worker", "CF-FormattedEffectiveDate" >>, "text", None),
      Src("FYStartDate", << "Worker", "FYStartDate" >>, "text", None),
      Src("FYEndDate", << "Worker", "FYEndDate" >>, "text", None) }

MasterSources ==
    { Src("Unit_Descriptor", << "Unit" >>, "attr", None),
      Src("Unit_ID_WID", << "Unit" >>, "id", "WID"),
      Src("Unit_ID_Organization_Reference_ID", << "Unit" >>, "id", "Organization_Reference_ID"),
      Src("Unit_ID_Custom_Organization_Reference_ID",
          << "Unit" >>, "id", "Custom_Organization_Reference_ID"),
      Src("PositionManagement_Position_ID",
          << "PositionManagement", "Position_ID" >>, "text", None),
      Src("PositionManagement_Job_Code", << "PositionManagement", "Job_Code" >>, "text", None),
      Src("PositionManagement_Position_Title",
          << "PositionManagement", "Position_Title" >>, "text", None),
      Src("PositionManagement_Open_Position_Title",
          << "PositionManagement", "Open_Position_Title" >>, "text", None),
      Src("PositionManagement_FTE", << "PositionManagement", "FTE" >>, "text", None),
      Src("PositionManagement_CF_CompGradeRefID",
          << "PositionManagement", "CF-CompGradeRefID" >>, "text", None),
      Src("PositionManagement_CF_Worker_Comp_Step_Descriptor",
          << "PositionManagement", "CF-Worker_Comp_Step" >>, "attr", None),
      Src("PositionManagement_CF_Worker_Comp_Step_ID_WID",
          << "PositionManagement", "CF-Worker_Comp_Step" >>, "id", "WID"),
      Src("PositionManagement_CF_Worker_Comp_Step_ID_Compensation_Step_ID",
          << "PositionManagement", "CF-Worker_Comp_Step" >>, "id", "Compensation_Step_ID"),
      Src("PositionManagement_Staffing_Status_Descriptor",
          << "PositionManagement", "Staffing_Status" >>, "attr", None),
      Src("PositionManagement_Staffing_Status_ID_WID",
          << "PositionManagement", "Staffing_Status" >>, "id", "WID"),
      Src("PositionManagement_Staffing_Status_ID_Staffing_Interface_Status_for_CRF_ID",
          << "PositionManagement", "Staffing_Status" >>, "id", "Staffing_Interface_Status_for_CRF_ID"),
      Src("EmployeeID", << "EmployeeID" >>, "text", None),
      Src("Cost_Center_Descriptor", << "Cost_Center" >>, "attr", None),
      Src("Cost_Center_ID_WID", << "Cost_Center" >>, "id", "WID"),
      Src("Cost_Center_ID_Organization_Reference_ID",
          << "Cost_Center" >>, "id", "Organization_Reference_ID"),
      Src("Cost_Center_ID_Cost_Center_Reference_ID",
          << "Cost_Center" >>, "id", "Cost_Center_Reference_ID"),
      Src("CF_CostCenterID", << "CF-CostCenterID" >>, "text", None),
      Src("Worker_Is_Classified", << "Worker", "Is_Classified" >>, "text", None),
      Src("Worker_Last_Name", << "Worker", "Last_Name" >>, "text", None),
      Src("Worker_First_Name", << "Worker", "First_Name" >>, "text", None),
      Src("Worker_Work_Email", << "Worker", "Work_Email" >>, "text", None),
      Src("Worker_BusinessTitle", << "Worker", "BusinessTitle" >>, "text", None),
      Src("Worker_CF_TenureStatus", << "Worker", "CF-TenureStatus" >>, "text", None),
      Src("Worker_SeniorityDate", << "Worker", "SeniorityDate" >>, "text", None),
      Src("Worker_OriginalHireDate", << "Worker", "OriginalHireDate" >>, "text", None),
      Src("Worker_ContinuousServiceDate", << "Worker", "ContinuousServiceDate" >>, "text", None),
      Src("Worker_Eff_Date_CurrentPosition",
          << "Worker", "Eff_Date_CurrentPosition" >>, "text", None),
      Src("Worker_LastPayIncreaseDate", << "Worker", "LastPayIncreaseDate" >>, "text", None),
      Src("Worker_Medicare_Flag", << "Worker", "Medicare_Flag" >>, "text", None),
      Src("Worker_CF_Worker_Comp_Grade_WID",
          << "Worker", "CF_-_Worker_Comp_Grade_WID" >>, "text", None),
      Src("Worker_CF_Worker_Comp_Grade_Prof_WID",
          << "Worker", "CF_-_Worker_Comp_Grade_Prof_WID" >>, "text", None),
      Src("Worker_Worker_Compensation_Grade_Descriptor",
          << "Worker", "Worker_Compensation_Grade" >>, "attr", None),
      Src("Worker_Worker_Compensation_Grade_ID_WID",
          << "Worker", "Worker_Compensation_Grade" >>, "id", "WID"),
      Src("Worker_Worker_Compensation_Grade_ID_Compensation_Grade_ID",
          << "Worker", "Worker_Compensation_Grade" >>, "id", "Compensation_Grade_ID"),
      Src("Worker_Worker_Compensation_Grade_Profile_Descriptor",
          << "Worker", "Worker_Compensation_Grade_Profile" >>, "attr", None),
      Src("Worker_Worker_Compensation_Grade_Profile_ID_WID",
          << "Worker", "Worker_Compensation_Grade_Profile" >>, "id", "WID"),
      Src("Worker_Worker_Compensation_Grade_Profile_ID_Compensation_Grade_Profile_ID",
          << "Worker", "Worker_Compensation_Grade_Profile" >>, "id", "Compensation_Grade_Profile_ID"),
      Src("Worker_Position_Worker_Type_Descriptor",
          << "Worker", "Position_Worker_Type" >>, "attr", None),
      Src("Worker_Position_Worker_Type_ID_WID",
          << "Worker", "Position_Worker_Type" >>, "id", "WID"),
      Src("Worker_Position_Worker_Type_ID_Employee_Type_ID",
          << "Worker", "Position_Worker_Type" >>, "id", "Employee_Type_ID"),
      Src("Eligibility_Rules_Descriptor", << "Eligibility_Rules" >>, "attr", None),
      Src("Eligibility_Rules_ID_WID", << "Eligibility_Rules" >>, "id", "WID"),
      Src("Default_Compensation_Grade_group_WID",
          << "Default_Compensation_Grade_group", "WID" >>, "text", None),
      Src("Default_Compensation_Grade_group_Compensation_Grade_Descriptor",
          << "Default_Compensation_Grade_group", "Compensation_Grade" >>, "attr", None),
      Src("Default_Compensation_Grade_group_Compensation_Grade_ID_WID",
          << "Default_Compensation_Grade_group", "Compensation_Grade" >>, "id", "WID"),
      Src("Default_Compensation_Grade_group_Compensation_Grade_ID_Compensation_Grade_ID",
          << "Default_Compensation_Grade_group", "Compensation_Grade" >>, "id", "Compensation_Grade_ID"),
      Src("Default_Compensation_Grade_Profile_group_CF_CompGradeProf_WID",
          << "Default_Compensation_Grade_Profile_group", "CF-CompGradeProf-WID" >>, "text", None),
      Src("PositionJob_CF_IsWorkerEmpty", << "PositionJob", "CF-IsWorkerEmpty" >>, "text", None),
      Src("PositionJob_CF_Step", << "PositionJob", "CF-Step" >>, "text", None),
      Src("PositionJob_CF_MeritStep", << "PositionJob", "CF-MeritStep" >>, "text", None),
      Src("PositionJob_CF_MeritDate", << "PositionJob", "CF-MeritDate" >>, "text", None),
      Src("PositionJob_Job_Family_Group_Descriptor",
          << "PositionJob", "Job_Family_Group" >>, "attr", None),
      Src("PositionJob_Job_Family_Group_ID_WID",
          << "PositionJob", "Job_Family_Group" >>, "id", "WID"),
      Src("PositionJob_Job_Family_Group_ID_Job_Family_ID",
          << "PositionJob", "Job_Family_Group" >>, "id", "Job_Family_ID"),
      Src("PositionRestrictions_RetirementCodeOld",
          << "PositionRestrictions", "RetirementCodeOld" >>, "text", None),
      Src("PositionRestrictions_Health_Insurance_Yr1_Flag",
          << "PositionRestrictions", "Health_Insurance_Yr1_Flag" >>, "text", None),
      Src("PositionRestrictions_Health_Insurance_Yr2_Flag",
          << "PositionRestrictions", "Health_Insurance_Yr2_Flag" >>, "text", None),
      Src("PositionRestrictions_Partial_Flag",
          << "PositionRestrictions", "Partial_Flag" >>, "text", None),
      Src("PositionRestrictions_Retirement_Flag",
          << "PositionRestrictions", "Retirement_Flag" >>, "text", None),
      Src("PositionRestrictions_Workers_Comp_Flag",
          << "PositionRestrictions", "Workers_Comp_Flag" >>, "text", None),
      Src("PositionRestrictions_Personnel_Assessment_Flag",
          << "PositionRestrictions", "Personnel_Assessment_Flag" >>, "text", None),
      Src("PositionRestrictions_Unemployment_Flag",
          << "PositionRestrictions", "Unemployment_Flag" >>, "text", None),
      Src("PositionRestrictions_GroupInsFlag",
          << "PositionRestrictions", "GroupInsFlag" >>, "text", None),
      Src("PositionRestrictions_Medicare_Flag_OLD",
          << "PositionRestrictions", "Medicare_Flag-OLD" >>, "text", None),
      Src("PositionRestrictions_FICA_Flag",
          << "PositionRestrictions", "FICA_Flag" >>, "text", None),
      Src("PositionRestrictions_AG_Tort_Flag",
          << "PositionRestrictions", "AG_Tort_Flag" >>, "text", None),
      Src("PositionRestrictions_Employee_Bond_Flag",
          << "PositionRestrictions", "Employee_Bond_Flag" >>, "text", None),
      Src("PositionRestrictions_Merit_Increase_Flag",
          << "PositionRestrictions", "Merit_Increase_Flag" >>, "text", None),
      Src("Retirement_Savings_Election_group_Employer_Contribution_Percentage",
          << "Retirement_Savings_Election_group", "Employer_Contribution_Percentage" >>, "text", None),
      Src("Retirement_Savings_Election_group_Elected",
          << "Retirement_Savings_Election_group", "Elected" >>, "text", None),
      Src("Retirement_Savings_Election_group_RetirementCode_Descriptor",
          << "Retirement_Savings_Election_group", "RetirementCode" >>, "attr", None),
      Src("Retirement_Savings_Election_group_RetirementCode_ID_WID",
          << "Retirement_Savings_Election_group", "RetirementCode" >>, "id", "WID"),
      Src("Retirement_Savings_Election_group_RetirementCode_ID_Defined_Contribution_Plan_ID",
          << "Retirement_Savings_Election_group", "RetirementCode" >>, "id", "Defined_Contribution_Plan_ID"),
      Src("Retirement_Savings_Election_group_RetirementCode_ID_Benefit_Plan_ID",
          << "Retirement_Savings_Election_group", "RetirementCode" >>, "id", "Benefit_Plan_ID") }

CompensationSources ==
    { Src("Position_ID", << "Worker_group", "Position_ID" >>, "text", None),
      Src("Employee_ID", << "Worker_group", "Employee_ID" >>, "text", None),
      Src("Job_Family_Group_Descriptor", << "Worker_group", "Job_Family_Group" >>, "attr", None),
      Src("Job_Family_Group_WID", << "Worker_group", "Job_Family_Group" >>, "id", "WID"),
      Src("Job_Family_Group_Job_Family_ID",
          << "Worker_group", "Job_Family_Group" >>, "id", "Job_Family_ID"),
      Src("CF_Staffing_Status_Descriptor",
          << "Worker_group", "CF-Staffing_Status" >>, "attr", None),
      Src("CF_Staffing_Status_WID", << "Worker_group", "CF-Staffing_Status" >>, "id", "WID"),
      Src("CF_Staffing_Status_Staffing_Interface_Status_for_CRF_ID",
          << "Worker_group", "CF-Staffing_Status" >>, "id", "Staffing_Interface_Status_for_CRF_ID"),
      Src("CF_JobCode", << "Worker_group", "CF-JobCode" >>, "text", None),
      Src("Terminated_based_on_report_date",
          << "Worker_group", "Terminated__based_on_report_date_" >>, "text", None) }

GrantSources ==
    { Src("Code_Description_Descriptor", << "Code_Description" >>, "attr", None),
      Src("Code_Description_WID", << "Code_Description" >>, "id", "WID"),
      Src("Code_Description_Grant_ID", << "Code_Description" >>, "id", "Grant_ID"),
      Src("Code", << "Code" >>, "text", None),
      Src("Parent", << "Parent" >>, "text", None),
      Src("Grant_Description", << "Grant_Description" >>, "text", None),
      Src("Grant_Cost_Center_Descriptor", << "Grant_Cost_Center" >>, "attr", None),
      Src("Grant_Cost_Center_WID", << "Grant_Cost_Center" >>, "id", "WID"),
      Src("Grant_Cost_Center_Organization_Reference_ID",
          << "Grant_Cost_Center" >>, "id", "Organization_Reference_ID"),
      Src("Grant_Cost_Center_Cost_Center_Reference_ID",
          << "Grant_Cost_Center" >>, "id", "Cost_Center_Reference_ID"),
      Src("Included_in_Grant_Hierarchies_Descriptor",
          << "Included_in_Grant_Hierarchies" >>, "attr", None),
      Src("Included_in_Grant_Hierarchies_WID",
          << "Included_in_Grant_Hierarchies" >>, "id", "WID"),
      Src("Included_in_Grant_Hierarchies_Grant_Hierarchy_ID",
          << "Included_in_Grant_Hierarchies" >>, "id", "Grant_Hierarchy_ID"),
      Src("Institution_Hierarchy_Node_Grants_Descriptor",
          << "Institution_Hierarchy_Node_-_Grants" >>, "attr", None),
      Src("Institution_Hierarchy_Node_Grants_WID",
          << "Institution_Hierarchy_Node_-_Grants" >>, "id", "WID"),
      Src("Institution_Hierarchy_Node_Grants_Grant_Hierarchy_ID",
          << "Institution_Hierarchy_Node_-_Grants" >>, "id", "Grant_Hierarchy_ID"),
      Src("Unit_Descriptor", << "Unit" >>, "attr", None),
      Src("Unit_WID", << "Unit" >>, "id", "WID"),
      Src("Unit_Organization_Reference_ID", << "Unit" >>, "id", "Organization_Reference_ID"),
      Src("Unit_Custom_Organization_Reference_ID",
          << "Unit" >>, "id", "Custom_Organization_Reference_ID"),
      Src("Grant_Manager_Descriptor", << "Grant_Manager" >>, "attr", None),
      Src("Grant_Manager_WID", << "Grant_Manager" >>, "id", "WID"),
      Src("Grant_Manager_Employee_ID", << "Grant_Manager" >>, "id", "Employee_ID"),
      Src("Grant_Accountant_Descriptor", << "Grant_Accountant" >>, "attr", None),
      Src("Grant_Accountant_WID", << "Grant_Accountant" >>, "id", "WID"),
      Src("Grant_Accountant_Employee_ID", << "Grant_Accountant" >>, "id", "Employee_ID"),
      Src("Grant_Owner_Descriptor", << "Grant_Owner" >>, "attr", None),
      Src("Grant_Owner_WID", << "Grant_Owner" >>, "id", "WID"),
      Src("Grant_Owner_Employee_ID", << "Grant_Owner" >>, "id", "Employee_ID"),
      Src("Has_Program", << "Has_Program" >>, "text", None),
      Src("Has_Grant_Cost_Center", << "Has_Grant_Cost_Center" >>, "text", None),
      Src("Has_Program_Cost_Center", << "Has_Program_Cost_Center" >>, "text", None),
      Src("Company_Descriptor", << "Company" >>, "attr", None),
      Src("Company_WID", << "Company" >>, "id", "WID"),
      Src("Company_Organization_Reference_ID",
          << "Company" >>, "id", "Organization_Reference_ID"),
      Src("Company_Company_Reference_ID", << "Company" >>, "id", "Company_Reference_ID"),
      Src("Owner_Descriptor", << "Owner" >>, "attr", None),
      Src("Owner_WID", << "Owner" >>, "id", "WID"),
      Src("Owner_Employee_ID", << "Owner" >>, "id", "Employee_ID"),
      Src("Inactive", << "Inactive" >>, "text", None),
      Src("Fund_Code", << "Fund_group", "Fund_Code" >>, "text", None),
      Src("Function_Code", << "Function_group", "Function_Code" >>, "text", None),
      Src("Unit_Code", << "Unit_group", "Unit_Code" >>, "text", None) }

ProgramSources ==
    { Src("Code_Description", << "Code_Description" >>, "text", None),
      Src("Cost_Center_Parent", << "Cost_Center_group", "Parent" >>, "text", None),
      Src("Code", << "Code" >>, "text", None),
      Src("Program_Name", << "Program_Name" >>, "text", None),
      Src("Parent_Cost_Center_Descriptor", << "Parent_Cost_Center" >>, "attr", None),
      Src("Parent_Cost_Center_WID", << "Parent_Cost_Center" >>, "id", "WID"),
      Src("Parent_Cost_Center_Organization_Reference_ID",
          << "Parent_Cost_Center" >>, "id", "Organization_Reference_ID"),
      Src("Parent_Cost_Center_Cost_Center_Reference_ID",
          << "Parent_Cost_Center" >>, "id", "Cost_Center_Reference_ID"),
      Src("Included_in_Program_Hierarchies_Descriptor",
          << "Included_in_Program_Hierarchies" >>, "attr", None),
      Src("Included_in_Program_Hierarchies_WID",
          << "Included_in_Program_Hierarchies" >>, "id", "WID"),
      Src("Included_in_Program_Hierarchies_Program_Hierarchy_ID",
          << "Included_in_Program_Hierarchies" >>, "id", "Program_Hierarchy_ID"),
      Src("Unit_Descriptor", << "Unit" >>, "attr", None),
      Src("Unit_WID", << "Unit" >>, "id", "WID"),
      Src("Unit_Organization_Reference_ID", << "Unit" >>, "id", "Organization_Reference_ID"),
      Src("Unit_Custom_Organization_Reference_ID",
          << "Unit" >>, "id", "Custom_Organization_Reference_ID"),
      Src("Fund_Descriptor", << "Fund" >>, "attr", None),
      Src("Fund_WID", << "Fund" >>, "id", "WID"),
      Src("Fund_Fund_ID", << "Fund" >>, "id", "Fund_ID"),
      Src("Related_Function_for_Program_Descriptor",
          << "Related_Function_for_Program" >>, "attr", None),
      Src("Related_Function_for_Program_WID", << "Related_Function_for_Program" >>, "id", "WID"),
      Src("Related_Function_for_Program_Organization_Reference_ID",
          << "Related_Function_for_Program" >>, "id", "Organization_Reference_ID"),
      Src("Related_Function_for_Program_Custom_Organization_Reference_ID",
          << "Related_Function_for_Program" >>, "id", "Custom_Organization_Reference_ID"),
      Src("Program_Manager_Descriptor", << "Program_Manager" >>, "attr", None),
      Src("Program_Manager_WID", << "Program_Manager" >>, "id", "WID"),
      Src("Program_Manager_Employee_ID", << "Program_Manager" >>, "id", "Employee_ID"),
      Src("Owner_Descriptor", << "Owner" >>, "attr", None),
      Src("Owner_WID", << "Owner" >>, "id", "WID"),
      Src("Owner_Employee_ID", << "Owner" >>, "id", "Employee_ID"),
      Src("Inactive", << "Inactive" >>, "text", None),
      Src("Fund_Code", << "Fund_group", "Fund_Code" >>, "text", None),
      Src("Function_Code", << "Function_group", "Function_Code" >>, "text", None),
      Src("Unit_Code", << "Unit_group", "Unit_Code" >>, "text", None) }

ColumnSources(script) ==
    CASE script = Costing -> CostingSources
      [] script = Master -> MasterSources
      [] script = Compensation -> CompensationSources
      [] script = Grant -> GrantSources
      [] script = Program -> ProgramSources

\* The values an entry offers at a source: the texts (Descriptors) of the elements at
\* the path, the texts of the IDs of the type at or below them.
SourceValues(entry, src) ==
    LET els == iterfind(entry, src.path)
        at == Range(els)
        ids == { d \in Range(DescendantsOfAll(els)) : d.tag = "ID" /\ d.type = src.type }
    IN  CASE src.kind = "text" -> { e.text : e \in at } \ {None}
          [] src.kind = "attr" -> { e.Descriptor : e \in at } \ {None}
          [] src.kind = "id" -> { d.text : d \in ids } \ {None}

\* The repeated elements a script loops over inside an entry, and the columns filled
\* from them (the columns that are neither sourced once per entry nor the date).
LoopPath(script) ==
    CASE script = Costing -> << "AllocationDetails" >>
      [] script = Compensation -> << "Compensation_Plan_Assignments" >>
      [] script = Grant -> << "Worktags" >>
      [] script = Master -> << "Default_Compensation_Grade_group", "Compensation_Grade_Profiles" >>
      [] script = Program -> << "no repeated element" >>

LoopColumns(script) ==
    Range(HeadersOf(script))
      \ ({ src.column : src \in ColumnSources(script) } \cup {"Updated_Date"})

\* C12: on a well-formed document in which optional elements, attributes or anchor
\* elements are absent or without text, every parser goes through all the entries and
\* writes its rows; a column whose source is absent or empty in the entry is written
\* as the empty string (never as None); and a helper passed an absent (None) element
\* returns its default.
C12_AbsentSources ==
    /\ fl_pc = "written" =>
          /\ fl_done = Len(report_entries(fl_root))
          /\ \A k \in 1..Len(fl_lines) : \A i \in 1..Len(fl_lines[k]) : fl_lines[k][i] # None
    /\ \A e \in 1..fl_done :
          LET entry == report_entries(fl_root)[e]
          IN  \A r \in 1..Len(RowsOfEntry(e)) :
                /\ \A src \in ColumnSources(fl_script) :
                      SourceValues(entry, src) = {} =>
                          Cell(fl_script, RowsOfEntry(e)[r], src.column) = ""
                /\ iterfind(entry, LoopPath(fl_script)) = << >> =>
                      \A c \in LoopColumns(fl_script) :
                          Cell(fl_script, RowsOfEntry(e)[r], c) = ""
    /\ hp_pc = "returned" /\ IsNone(hp_element) => hp_result = HelperDefault(hp_script)

\* A master entry that has all its blocks, every one of them empty, written as a line
\* of empty cells and the date.
C12_Witness ==
    /\ fl_script = Master /\ fl_pc = "written" /\ fl_date = "2024-03-05"
    /\ Len(fl_lines) = 1
    /\ Len(report_entries(fl_root)[1].kids) = Len(MasterBlocks(<< >>))
    /\ \A i \in 1..Len(get_all_field_names) :
          fl_lines[1][i] = IF get_all_field_names[i] = "Updated_Date" THEN "2024-03-05" ELSE ""

(***************************************************************************)
(* SpecSparse: a flattening run or a helper call.                          *)
(***************************************************************************)
InitSparse == InitFlatten \/ InitHelper

NextSparse == NextFlatten \/ NextHelper

SpecSparse == InitSparse /\ [][NextSparse]_vars

(***************************************************************************)
(* SpecRun: a flattening run over a document, or a batch of parser runs.   *)
(***************************************************************************)
InitRun == InitFlatten \/ InitBatch

NextRun == NextFlatten \/ Next

SpecRun == InitRun /\ [][NextRun]_vars

(***************************************************************************)
(* The provenance date: C13, C14.                                          *)
(***************************************************************************)
\* The Updated_Date cells of the rows.
UpdatedDates(script, rows) ==
    { Cell(script, rows[r], "Updated_Date") : r \in 1..Len(rows) }

\* The rows the parse function of the running parser returned, if it returned rows.
ParsedRows ==
    IF b_pc \in {"idle", "loop", "summary", "done"} THEN << >>
    ELSE IF b_parsed.returned = "rows" THEN b_parsed.rows ELSE << >>

HasParsed == b_pc \in {"write", "exited"} /\ b_parsed.returned = "rows"

\* C13: in one run of a parser the date is computed once, from the modification time of
\* the input file and before any entry is flattened, and every row (of every entry, of
\* every expansion child) carries that value in Updated_Date, whatever the document holds.
C13_OneDatePerRun ==
    /\ [](UpdatedDates(fl_script, fl_all_rows) \subseteq {fl_date})
    /\ [](fl_pc = "written" =>
            \A k \in 1..Len(fl_lines) :
                fl_lines[k][ColumnIndex(fl_script, "Updated_Date")] = fl_date)
    /\ [](HasParsed => UpdatedDates(CurrentScript, ParsedRows) \subseteq {b_date})
    /\ [][fl_date' = fl_date]_vars
    /\ [][b_date' # b_date =>
            \/ b_pc = "mtime" /\ b_parsed = NotParsed /\ "parse" \notin b_calls[CurrentScript]
            \/ b_pc = "exited"]_vars
    /\ [][HasParsed' /\ ~HasParsed =>
            "getmtime" \in b_calls[CurrentScript] /\ b_date' = b_date]_vars

\* A costing document of two entries flattened into three rows or more and written,
\* the date of the file known.
C13_Witness ==
    /\ fl_script = Costing /\ fl_pc = "written" /\ fl_date = "2024-03-05"
    /\ fl_done = 2 /\ Len(fl_lines) >= 3
    /\ \A k \in 1..Len(fl_lines) : fl_lines[k][Len(costing_headers)] = "2024-03-05"

\* The date cells of the data lines of a file, and whether its header names the column.
FileDates(script, file) ==
    { file.lines[k][ColumnIndex(script, "Updated_Date")] : k \in 2..Len(file.lines) }

\* The running parser opened its output file and no write failed.
WroteFile ==
    /\ b_pc = "exited"
    /\ "open" \in b_calls[CurrentScript] /\ "IOError" \notin b_calls[CurrentScript]

\* The modification time of the input could not be read or formatted in this run.
DateUnavailable ==
    /\ b_pc \in {"parse", "write", "exited"}
    /\ "getmtime" \in b_calls[CurrentScript] /\ b_date = ""

\* C14: when the modification time of the input file cannot be retrieved or formatted,
\* the run goes on to the parse; the header and every row still have the Updated_Date
\* column, and its value is the empty string in every row.
C14_DateUnavailable ==
    /\ [][b_pc = "mtime" => b_pc' = "parse" /\ b_date' \in {"2024-03-05", ""}]_vars
    /\ [](DateUnavailable =>
            /\ UpdatedDates(CurrentScript, ParsedRows) \subseteq {""}
            /\ \A r \in 1..Len(ParsedRows) :
                  Len(DataLine(CurrentScript, ParsedRows[r])) = Len(HeadersOf(CurrentScript))
            /\ WroteFile =>
                  /\ b_files[CurrentScript].lines[1] = HeadersOf(CurrentScript)
                  /\ "Updated_Date" \in Range(b_files[CurrentScript].lines[1])
                  /\ Len(b_files[CurrentScript].lines) = 1 + Len(ParsedRows)
                  /\ FileDates(CurrentScript, b_files[CurrentScript]) \subseteq {""})
    /\ [](fl_pc = "written" /\ fl_date = "" =>
            /\ Len(fl_lines) = Len(fl_all_rows)
            /\ \A k \in 1..Len(fl_lines) :
                  /\ Len(fl_lines[k]) = Len(HeadersOf(fl_script))
                  /\ fl_lines[k][ColumnIndex(fl_script, "Updated_Date")] = "")

\* The grant parser, its date unavailable, wrote the header and one row with an empty
\* Updated_Date.
C14_Witness ==
    /\ b_pc = "exited" /\ CurrentScript = Grant /\ DateUnavailable /\ WroteFile
    /\ Len(b_files[Grant].lines) = 2
    /\ b_files[Grant].lines[1][ColumnIndex(Grant, "Updated_Date")] = "Updated_Date"
    /\ b_files[Grant].lines[2][ColumnIndex(Grant, "Updated_Date")] = ""

(***************************************************************************)
(* The order of the rows: C15.                                             *)
(***************************************************************************)
RECURSIVE RowsInDocumentOrder(_, _, _)
\* The rows of the entries one after the other, in the order of the entries.
RowsInDocumentOrder(script, entries, date) ==
    IF entries = << >> THEN << >>
    ELSE EntryRows(script, Head(entries), date)
           \o RowsInDocumentOrder(script, Tail(entries), date)

\* C15: the rows of a run are the rows of each Report_Entry one after the other in
\* document order: the rows of entry i come before the rows of entry i+1, rows of
\* different entries are not merged, two entries with the same content give their rows
\* twice, and the lines are written in the order of the rows, none sorted or left out.
C15_DocumentOrder ==
    /\ [](fl_pc # "idle" =>
            /\ fl_all_rows = RowsInDocumentOrder(fl_script,
                                 SubSeq(report_entries(fl_root), 1, fl_done), fl_date)
            /\ Len(fl_marks) = fl_done
            /\ \A e \in 1..fl_done :
                  /\ (IF e = 1 THEN 0 ELSE fl_marks[e - 1]) <= fl_marks[e]
                  /\ RowsOfEntry(e) = EntryRows(fl_script, report_entries(fl_root)[e], fl_date)
            /\ fl_pc = "written" =>
                  /\ fl_done = Len(report_entries(fl_root))
                  /\ Len(fl_lines) = Len(fl_all_rows)
                  /\ \A k \in 1..Len(fl_lines) :
                        fl_lines[k] = DataLine(fl_script, fl_all_rows[k]))
    /\ [][/\ Len(fl_all_rows') >= Len(fl_all_rows)
          /\ SubSeq(fl_all_rows', 1, Len(fl_all_rows)) = fl_all_rows]_vars

\* Two entries with the same content, flattened and written as two equal lines.
C15_Witness ==
    /\ fl_pc = "written" /\ fl_done = 2
    /\ report_entries(fl_root)[1] = report_entries(fl_root)[2]
    /\ Len(report_entries(fl_root)[1].kids) > 0
    /\ Len(fl_lines) = 2 /\ fl_lines[1] = fl_lines[2]

(***************************************************************************)
(* SpecTwice: one parser run again on the same input: C16.                 *)
(***************************************************************************)
\* The output file a run of a parser leaves when every write it attempts succeeds:
\* __main__ of the script from the check of the input to the last write.
main_output(script, input, file_modification_date, prior) ==
    LET rows == parse_xml_data(script, input.root, file_modification_date)
    IN  CASE input.kind = "missing" -> header_only_file(script)
          [] input.kind = "unreadable" -> prior
          [] input.kind = "malformed" ->
                IF script \in HandlerWrites THEN header_only_file(script)
                ELSE IF script = Costing /\ ~prior.exists THEN header_only_file(script)
                ELSE prior
          [] input.kind = "wellformed" ->
                IF script = Costing THEN data_file(script, rows)
                ELSE IF rows # << >> THEN data_file(script, rows)
                ELSE IF script = Master THEN prior
                ELSE header_only_file(script)

\* The output file before the first run: none, or one left by an earlier run on
\* another input.
PriorFilesOf(script) == { AbsentFile, StaleFile(script) }

InitTwice ==
    /\ tw_script \in Scripts
    /\ tw_input \in BatchInputs(tw_script)
    /\ tw_date \in ModificationDates
    /\ tw_file \in PriorFilesOf(tw_script)
    /\ tw_outputs = << >>
    /\ LookupIdle /\ FlattenIdle /\ BatchIdle /\ HelperIdle /\ ConcurrentIdle /\ TransferIdle

\* One run of the parser; the input file and its modification time stay as they are.
RunParser ==
    /\ Len(tw_outputs) < 2
    /\ tw_file' = main_output(tw_script, tw_input, tw_date, tw_file)
    /\ tw_outputs' = Append(tw_outputs, tw_file')
    /\ UNCHANGED << tw_script, tw_input, tw_date, lookup_vars, flatten_vars, batch_vars,
                    helper_vars, concurrent_vars, transfer_vars >>

NextTwice == RunParser

SpecTwice == InitTwice /\ [][NextTwice]_vars

\* C16: a parser run twice on the same input document with the same modification time
\* leaves the same output file both times, and that file does not depend on what the
\* output file held before the first run.
C16_SameOutputTwice ==
    Len(tw_outputs) = 2 /\ tw_input.kind = "wellformed" =>
        /\ tw_outputs[2] = tw_outputs[1]
        /\ \A prior \in PriorFilesOf(tw_script) :
              main_output(tw_script, tw_input, tw_date, prior) = tw_outputs[1]

(***************************************************************************)
(* Failures and the sequencer: C17.                                        *)
(***************************************************************************)
\* The scripts whose run met a failing write of the output file.
WriteFailed == { s \in Scripts : "IOError" \in b_calls[s] }

\* The position of a script in PARSER_SCRIPTS.
IndexOf(script) == CHOOSE i \in 1..Len(PARSER_SCRIPTS) : PARSER_SCRIPTS[i] = script

\* C17: a failing write of the output file during a parser's run is fatal for that
\* report type and reported to the caller: run_script returns False for the script and
\* the final summary says that some scripts failed; the other report types still run.
C17_WriteFailureReported ==
    /\ \A s \in WriteFailed :
          IndexOf(s) <= Len(b_results) => b_results[IndexOf(s)] = FALSE
    /\ b_pc = "done" =>
          /\ Len(b_results) = Len(PARSER_SCRIPTS)
          /\ WriteFailed # {} =>
                b_summary = "Some parsing scripts failed. Please check the output above for details."

(***************************************************************************)
(* Unregistered report types: C18.                                         *)
(***************************************************************************)
\* The scripts of the batch that run_script did not find.
NotRegistered == { s \in Scripts : "script not found" \in b_calls[s] }

\* A parser process is running.
ParserRunning == b_pc \in {"main", "mtime", "parse", "write", "exited"}

\* C18: a report type of the batch whose parser script is not present is detected at
\* startup, before any report type is processed: in a batch with such a report type no
\* parser script is executed and no output file is written.
C18_UnregisteredAtStartup ==
    NotRegistered # {} =>
        /\ ~ParserRunning
        /\ \A s \in Scripts : b_calls[s] \subseteq {"script not found"}

(***************************************************************************)
(* Exceptions escaping a parser: C19.                                      *)
(***************************************************************************)
\* The run of the parser met a failure state: its input missing, not well-formed or
\* unreadable, the modification time unavailable, or a write of the output failing.
FailureState ==
    \/ b_input.kind \in {"missing", "malformed", "unreadable"}
    \/ DateUnavailable
    \/ "IOError" \in b_calls[CurrentScript]

\* C19: no exception escapes a parser run: in every failure state (input missing, not
\* well-formed or unreadable, modification time unavailable, a write of the output
\* failing in any branch) the script ends without an uncaught exception (exit status
\* 0), and where the input could not be parsed and the output could be written it
\* leaves a header-only output.
C19_NoEscapingException ==
    b_pc = "exited" /\ FailureState =>
        /\ b_returncode = 0
        /\ b_input.kind # "wellformed" /\ "IOError" \notin b_calls[CurrentScript] =>
              HeaderOnly(CurrentScript)

(***************************************************************************)
(* One report type at a time: C20.                                         *)
(***************************************************************************)
\* The scripts whose run has begun: they made a call or their result is recorded.
Begun == { s \in Scripts : b_calls[s] # {} \/ IndexOf(s) <= Len(b_results) }

\* C20: the sequencer runs the report types one at a time in the order of
\* PARSER_SCRIPTS: a parser starts only when the results of all the scripts before it
\* are recorded, a result is recorded only when the process has exited (or was never
\* started), only the script the loop is at makes calls, and the scripts after it have
\* not begun; two parser runs are never in progress together.
C20_OneAtATime ==
    /\ [](/\ b_index \in 1..(Len(PARSER_SCRIPTS) + 1)
          /\ ParserRunning => b_index <= Len(PARSER_SCRIPTS) /\ Len(b_results) = b_index - 1
          /\ ~ParserRunning => Len(b_results) = b_index - 1
          /\ \A s \in Begun : IndexOf(s) <= b_index
          /\ \A s \in Scripts :
                IndexOf(s) > b_index \/ (IndexOf(s) = b_index /\ b_pc = "loop") =>
                    b_calls[s] = {})
    /\ [][/\ ParserRunning' /\ ~ParserRunning =>
                b_pc = "loop" /\ b_index' = b_index /\ b_results' = b_results
          /\ b_results' # b_results =>
                /\ b_pc \in {"exited", "loop"} /\ ~ParserRunning'
                /\ Len(b_results') = Len(b_results) + 1
                /\ SubSeq(b_results', 1, Len(b_results)) = b_results
                /\ b_index' = b_index + 1
          /\ b_index' # b_index => b_results' # b_results
          /\ \A s \in Scripts : b_calls'[s] # b_calls[s] => s = CurrentScript]_vars

\* The third parser is running; the first two have run and their results are recorded,
\* the last two have not begun.
C20_Witness ==
    /\ b_pc = "write" /\ b_index = 3 /\ Len(b_results) = 2
    /\ "parse" \in b_calls[PARSER_SCRIPTS[1]] /\ "parse" \in b_calls[PARSER_SCRIPTS[2]]
    /\ "parse" \in b_calls[PARSER_SCRIPTS[3]]
    /\ b_calls[PARSER_SCRIPTS[4]] = {} /\ b_calls[PARSER_SCRIPTS[5]] = {}

(***************************************************************************)
(* The batch runs to its summary: C21.                                     *)
(***************************************************************************)
AllSucceeded == \A i \in 1..Len(b_results) : b_results[i] = TRUE

\* How far the batch is: the scripts done with, then the position inside the run of
\* the script the loop is at.
StepsInRun == << "loop", "main", "mtime", "parse", "write", "exited" >>

PositionInRun ==
    IF b_pc \in {"summary", "done"} THEN 0
    ELSE CHOOSE k \in 1..Len(StepsInRun) : StepsInRun[k] = b_pc

Progress ==
    (Len(StepsInRun) + 1) * b_index + PositionInRun + (IF b_pc = "done" THEN 1 ELSE 0)

\* The step the batch can take where it is: run_script for the script the loop is at,
\* the next step of the running parser (the parse function has a way on for every
\* kind of input file that exists), the return of run_script, the summary.
StepPossible ==
    CASE b_pc = "loop" -> ENABLED (RunScriptNotFound \/ RunScriptException)
      [] b_pc = "main" -> ENABLED ParserCheckInput
      [] b_pc = "mtime" -> ENABLED ParserModificationDate
      [] b_pc = "parse" -> b_input.kind \in {"unreadable", "malformed", "wellformed"}
      [] b_pc = "write" -> ENABLED (WriteCosting \/ WriteMaster \/ WriteDictRows)
      [] b_pc = "exited" -> ENABLED RunScriptReturn
      [] b_pc = "summary" -> ENABLED PrintSummary
      [] OTHER -> FALSE

\* C21: a failure of one report type does not abort the batch: every script of
\* PARSER_SCRIPTS is attempted exactly once whatever became of the scripts before it
\* (script missing, exit status not 0, exception at the launch), the sequencer always
\* reaches the final summary, and the summary reports success exactly when every run
\* returned success (exit status 0). Reaching the summary is shown by a measure of
\* progress: until the summary is printed a step is always possible, every step
\* raises the measure and the measure is bounded, so the steps of the sequencer and
\* of the process it waits for end in the summary.
C21_BatchCompletes ==
    /\ [](b_pc # "done" => StepPossible)
    /\ [][Progress' > Progress]_vars
    /\ [](Progress <= (Len(StepsInRun) + 1) * (Len(PARSER_SCRIPTS) + 1) + 1)
    /\ [](b_all_successful <=> AllSucceeded)
    /\ [](b_pc \in {"summary", "done"} => Len(b_results) = Len(PARSER_SCRIPTS))
    /\ [](b_pc = "done" =>
            (b_summary = "All parsing scripts completed successfully." <=> AllSucceeded))
    /\ [][b_results' # b_results =>
            /\ b_results' = Append(b_results, b_pc = "exited" /\ b_returncode = 0)
            /\ Len(b_results') = b_index /\ b_index' = b_index + 1]_vars
    /\ [][b_pc = "loop" /\ b_pc' = "main" => b_calls[CurrentScript] = {}]_vars

\* The batch ended with the summary of a failure: the second script was missing, the
\* fourth ended with a status other than 0, the other three succeeded.
C21_Witness ==
    /\ b_pc = "done"
    /\ b_results = << TRUE, FALSE, TRUE, FALSE, TRUE >>
    /\ "script not found" \in b_calls[PARSER_SCRIPTS[2]]
    /\ "parse" \in b_calls[PARSER_SCRIPTS[4]]
    /\ b_summary = "Some parsing scripts failed. Please check the output above for details."

(***************************************************************************)
(* SpecConcurrent: the five parsers as concurrent processes: C22.          *)
(***************************************************************************)
xml_input_file_name(script) ==
    CASE script = Costing -> "position_costing_allocations_daily.csv"
      [] script = Master -> "position_master.csv"
      [] script = Compensation -> "position_compensation.csv"
      [] script = Grant -> "worktag_grant.csv"
      [] script = Program -> "worktag_program.csv"

\* A variant in which the program script has the output file name of the grant script.
csv_output_file_name_shared(script) ==
    CASE script = Costing -> "parsed_position_costing_allocations_daily.csv"
      [] script = Master -> "parsed_position_master.csv"
      [] script = Compensation -> "parsed_position_compensation.csv"
      [] script = Grant -> "parsed_worktag_grant.csv"
      [] script = Program -> "parsed_worktag_grant.csv"

csv_output_file_name(script) ==
    CASE script = Costing -> "parsed_position_costing_allocations_daily.csv"
      [] script = Master -> "parsed_position_master.csv"
      [] script = Compensation -> "parsed_position_compensation.csv"
      [] script = Grant -> "parsed_worktag_grant.csv"
      [] script = Program -> "parsed_worktag_program.csv"

\* os.path.join(xml_dir, xml_input_file_name), os.path.join(csv_dir, csv_output_file_name):
\* a path is the directory and the name.
xml_input_file(script) == << cc_dirs[1], xml_input_file_name(script) >>

csv_output_file(script) == << cc_dirs[2], csv_output_file_name(script) >>

InputPaths == { xml_input_file(s) : s \in Scripts }

OutputPaths == { csv_output_file(s) : s \in Scripts }

\* config['Paths']['workday_xml_downloads'] and config['Paths']['parsed_csvs']: two
\* directories, or one directory for both.
ConfiguredDirs == { << "workday_xml_downloads", "parsed_csvs" >>, << "data", "data" >> }

\* The input file of a script before the runs: missing, a document without entries, a
\* document with one entry.
ConcurrentInputs(script) ==
    { InputFile("missing", NoElement),
      InputFile("wellformed", Node("Report_Data", << >>)),
      InputFile("wellformed",
                Node("Report_Data", << CHOOSE e \in BatchEntries(script) : TRUE >>)) }

\* The modification date of the input files.
ConcurrentDate == "2024-03-05"

InitConcurrent ==
    /\ cc_dirs \in ConfiguredDirs
    /\ \E inputs \in [Scripts -> UNION { ConcurrentInputs(s) : s \in Scripts }] :
       \E prior \in PriorFiles :
          /\ \A s \in Scripts : inputs[s] \in ConcurrentInputs(s)
          /\ cc_fs0 = [p \in InputPaths \cup OutputPaths |->
                         IF p \in InputPaths
                         THEN inputs[CHOOSE s \in Scripts : xml_input_file(s) = p]
                         ELSE prior[CHOOSE s \in Scripts : csv_output_file(s) = p]]
    /\ cc_fs = cc_fs0
    /\ cc_pc = [s \in Scripts |-> "start"]
    /\ cc_read = [s \in Scripts |-> NoInput]
    /\ LookupIdle /\ FlattenIdle /\ BatchIdle /\ HelperIdle /\ TwiceIdle /\ TransferIdle

\* A parser looks for and reads the file at its xml_input_file.
ConcurrentRead(script) ==
    /\ cc_pc[script] = "start"
    /\ cc_read' = [cc_read EXCEPT ![script] = cc_fs[xml_input_file(script)]]
    /\ cc_pc' = [cc_pc EXCEPT ![script] = "read"]
    /\ UNCHANGED << cc_dirs, cc_fs0, cc_fs, lookup_vars, flatten_vars, batch_vars,
                    helper_vars, twice_vars, transfer_vars >>

\* A parser writes (or leaves) the file at its csv_output_file and ends.
ConcurrentWrite(script) ==
    /\ cc_pc[script] = "read"
    /\ cc_fs' = [cc_fs EXCEPT ![csv_output_file(script)] =
                    main_output(script, cc_read[script], ConcurrentDate, @)]
    /\ cc_pc' = [cc_pc EXCEPT ![script] = "done"]
    /\ UNCHANGED << cc_dirs, cc_fs0, cc_read, lookup_vars, flatten_vars, batch_vars,
                    helper_vars, twice_vars, transfer_vars >>

NextConcurrent ==
    \E script \in Scripts :
        \/ ConcurrentRead(script)
        \/ ConcurrentWrite(script)

SpecConcurrent == InitConcurrent /\ [][NextConcurrent]_vars

RECURSIVE RunSequentially(_, _)
\* The file system after the scripts are run one after the other, each to its end.
RunSequentially(fs, scripts) ==
    IF scripts = << >> THEN fs
    ELSE RunSequentially(
           [fs EXCEPT ![csv_output_file(Head(scripts))] =
               main_output(Head(scripts), fs[xml_input_file(Head(scripts))],
                           ConcurrentDate, @)],
           Tail(scripts))

\* C22: the five runs are independent: each parser reads only its own input file and
\* writes only its own output file, the five input paths and the five output paths
\* are pairwise distinct, and under any interleaving of the five runs each output file
\* ends equal to the one the sequential runs give.
C22_IndependentRuns ==
    /\ Cardinality(InputPaths \cup OutputPaths) = 2 * Cardinality(Scripts)
    /\ \A s \in Scripts :
          /\ cc_fs[xml_input_file(s)] = cc_fs0[xml_input_file(s)]
          /\ cc_pc[s] # "start" => cc_read[s] = cc_fs0[xml_input_file(s)]
          /\ cc_pc[s] # "done" => cc_fs[csv_output_file(s)] = cc_fs0[csv_output_file(s)]
          /\ cc_pc[s] = "done" =>
                cc_fs[csv_output_file(s)] =
                    main_output(s, cc_fs0[xml_input_file(s)], ConcurrentDate,
                                cc_fs0[csv_output_file(s)])
    /\ (\A s \in Scripts : cc_pc[s] = "done") =>
          cc_fs = RunSequentially(cc_fs0, PARSER_SCRIPTS)

\* The last parser of PARSER_SCRIPTS has written its output while the first has only
\* read its input and the second has not started; input and output files share one
\* directory.
C22_Witness ==
    /\ cc_pc[Program] = "done" /\ cc_pc[Costing] = "read" /\ cc_pc[Master] = "start"
    /\ cc_dirs[1] = cc_dirs[2]
    /\ Len(cc_fs[csv_output_file(Program)].lines) = 2
    /\ cc_fs0[csv_output_file(Program)] = AbsentFile

(***************************************************************************)
(* Assigned columns and header lists: C23.                                 *)
(***************************************************************************)
\* The dictionaries the flattening code fills for one entry, one per row: the costing
\* script makes its lists of them, the other scripts append them as rows.
EntryData(script, report_entry, file_modification_date) ==
    IF script = Costing THEN costing_entry_data(report_entry, file_modification_date)
    ELSE EntryRows(script, report_entry, file_modification_date)

\* C23: in every parser each column name the flattening code assigns a value to is in
\* the parser's header list, so no value is dropped or rejected at write time (the
\* written line carries every assigned value in its column), and no header list names
\* a column twice.
C23_AssignedColumnsInHeaders ==
    /\ \A s \in Scripts : Cardinality(Range(HeadersOf(s))) = Len(HeadersOf(s))
    /\ \A e \in 1..fl_done :
          LET data == EntryData(fl_script, report_entries(fl_root)[e], fl_date)
          IN  /\ Len(data) = Len(RowsOfEntry(e))
              /\ \A r \in 1..Len(data) :
                    /\ DOMAIN data[r] \subseteq Range(HeadersOf(fl_script))
                    /\ ~DictWriter_raises(HeadersOf(fl_script), data[r])
                    /\ \A column \in DOMAIN data[r] :
                          Cell(fl_script, RowsOfEntry(e)[r], column) = csv_cell(data[r][column])

\* A program entry with all its blocks, flattened and written: every column of the
\* header was assigned, and the line carries values.
C23_Witness ==
    /\ fl_script = Program /\ fl_pc = "written" /\ Len(fl_lines) = 1
    /\ DOMAIN fl_all_rows[1] = Range(program_headers)
    /\ Cardinality(Range(fl_lines[1]) \ {""}) > 5

(***************************************************************************)
(* Rows once appended: C24.                                                *)
(***************************************************************************)
\* A document with the one entry.
AloneInDocument(entry) == Node("Report_Data", << entry >>)

\* C24: a row is made anew for each entry and each expansion child and is not changed
\* once appended: the iterations for a later expansion child or a later entry leave
\* every appended row as it was, a row of an entry is the row the entry gives with that
\* expansion child alone (the rows of an entry do not share the entry-level map), and
\* the rows of an entry are those the entry gives alone in a document.
C24_RowsFreshAndKept ==
    /\ [][/\ Len(fl_all_rows') >= Len(fl_all_rows)
          /\ \A k \in 1..Len(fl_all_rows) : fl_all_rows'[k] = fl_all_rows[k]
          /\ fl_marks' # fl_marks =>
                SubSeq(fl_marks', 1, Len(fl_marks)) = fl_marks]_vars
    /\ [](\A e \in 1..fl_done :
            LET entry == report_entries(fl_root)[e]
            IN  /\ RowsOfEntry(e) =
                      parse_xml_data(fl_script, AloneInDocument(entry), fl_date)
                /\ fl_script \in ExpandingScripts =>
                      \A r \in 1..Len(ExpansionChildren(fl_script, entry)) :
                          /\ r <= Len(RowsOfEntry(e))
                          /\ << RowsOfEntry(e)[r] >> =
                                EntryRows(fl_script, OnlyChild(fl_script, entry, r), fl_date))

\* A compensation entry with two different assignments gave two different rows, which
\* are still there after the next entry was flattened.
C24_Witness ==
    /\ fl_script = Compensation /\ fl_done = 2 /\ fl_marks[1] = 2
    /\ Len(fl_all_rows) > 2
    /\ fl_all_rows[1] # fl_all_rows[2]
    /\ fl_all_rows[1]["Annualized_Amount"] # fl_all_rows[2]["Annualized_Amount"]


(***************************************************************************)
(* The Worktags columns of the grant parser: C25.                          *)
(***************************************************************************)
\* The column groups of the Worktags loop: the prefix a Descriptor is tested for and the
\* columns of the group, each with what it is read from (the Descriptor attribute or
\* the ID child of a type).
WorktagGroups ==
    { [prefix |-> "Fund:",
       columns |-> { << "Worktag_Fund_Descriptor", "Descriptor" >>,
                     << "Worktag_Fund_WID", "WID" >>,
                     << "Worktag_Fund_ID", "Fund_ID" >> }],
      [prefix |-> "Function:",
       columns |-> { << "Worktag_Function_Descriptor", "Descriptor" >>,
                     << "Worktag_Function_WID", "WID" >>,
                     << "Worktag_Function_Organization_Reference_ID",
                        "Organization_Reference_ID" >>,
                     << "Worktag_Function_Custom_Organization_Reference_ID",
                        "Custom_Organization_Reference_ID" >> }],
      [prefix |-> "Unit:",
       columns |-> { << "Worktag_Unit_Descriptor", "Descriptor" >>,
                     << "Worktag_Unit_WID", "WID" >>,
                     << "Worktag_Unit_Organization_Reference_ID",
                        "Organization_Reference_ID" >>,
                     << "Worktag_Unit_Custom_Organization_Reference_ID",
                        "Custom_Organization_Reference_ID" >> }],
      [prefix |-> "Cost Center:",
       columns |-> { << "Worktag_Cost_Center_Descriptor", "Descriptor" >>,
                     << "Worktag_Cost_Center_WID", "WID" >>,
                     << "Worktag_Cost_Center_Organization_Reference_ID",
                        "Organization_Reference_ID" >>,
                     << "Worktag_Cost_Center_Cost_Center_Reference_ID",
                        "Cost_Center_Reference_ID" >> }] }

WorktagPrefixes == { g.prefix : g \in WorktagGroups }

\* The Worktags children of an entry whose Descriptor begins with the prefix, in
\* document order.
WorktagsWithPrefix(entry, prefix) ==
    SelectSeq(findall(entry, "Worktags"),
              LAMBDA w : w.Descriptor # None /\ startswith(w.Descriptor, prefix))

\* A Worktags element without a Descriptor the loop recognises.
Unrecognised(w) ==
    \/ w.Descriptor = None
    \/ w.Descriptor = ""
    \/ \A prefix \in WorktagPrefixes : ~startswith(w.Descriptor, prefix)

\* The entry without its unrecognised Worktags children.
WithoutUnrecognised(entry) ==
    Entry(SelectSeq(entry.kids, LAMBDA k : ~(k.tag = "Worktags" /\ Unrecognised(k))))

\* The text of the first ID child of the type, the empty cell when there is none.
FirstIdOfType(element, type) ==
    LET ids == SelectSeq(findall(element, "ID"), LAMBDA k : k.type = type)
    IN  IF ids = << >> THEN "" ELSE csv_cell(Head(ids).text)

\* C25: in the grant parser all columns of a Worktag group come from one and the same
\* Worktags element, the last one in document order whose Descriptor begins with the
\* group's prefix; a Worktags element with a missing, empty or unrecognised Descriptor
\* changes no column; the columns of a group without such an element are all empty.
C25_LastWorktagOfPrefix ==
    fl_script = Grant =>
        \A e \in 1..fl_done :
            LET entry == report_entries(fl_root)[e]
                row == RowsOfEntry(e)[1]
            IN  /\ Len(RowsOfEntry(e)) = 1
                /\ \A g \in WorktagGroups :
                      LET ws == WorktagsWithPrefix(entry, g.prefix)
                      IN  \A c \in g.columns :
                              Cell(Grant, row, c[1]) =
                                  IF ws = << >> THEN ""
                                  ELSE IF c[2] = "Descriptor" THEN ws[Len(ws)].Descriptor
                                  ELSE FirstIdOfType(ws[Len(ws)], c[2])
                /\ RowsOfEntry(e) = grant_entry_rows(WithoutUnrecognised(entry), fl_date)

\* A grant entry with two Fund elements, the first with a WID and the second without,
\* between elements without a recognised Descriptor: the Fund columns are those of the
\* second element, its missing WID included.
C25_Witness ==
    /\ fl_script = Grant /\ fl_pc = "written" /\ fl_done >= 1
    /\ LET entry == report_entries(fl_root)[1]
       IN  /\ Len(WorktagsWithPrefix(entry, "Fund:")) = 2
           /\ FirstIdOfType(WorktagsWithPrefix(entry, "Fund:")[1], "WID") # ""
    /\ fl_lines[1][ColumnIndex(Grant, "Worktag_Fund_ID")] = "F2"
    /\ fl_lines[1][ColumnIndex(Grant, "Worktag_Fund_WID")] = ""


(***************************************************************************)
(* The SFTP transfer functions: download_sftp_files.py and                 *)
(* upload_parsed_files_to_sftp.py.                                         *)
(***************************************************************************)
Download == "download_all_files_from_sftp_root"

Upload == "upload_parsed_csvs_to_sftp"

TransferFunctions == {Download, Upload}

\* required_paths_keys and required_sftp_keys
required_paths_keys(function) ==
    IF function = Download THEN {"workday_xml_downloads"} ELSE {"parsed_csvs"}

required_sftp_keys == {"Hostname", "Port", "Username", "Password"}

\* ConfigParser.optionxform: option names are compared in lower case.
optionxform ==
    [key \in required_sftp_keys \cup {"workday_xml_downloads", "parsed_csvs"} |->
        CASE key = "Hostname" -> "hostname"
          [] key = "Port" -> "port"
          [] key = "Username" -> "username"
          [] key = "Password" -> "password"
          [] OTHER -> key]

\* key in config[section]
has_option(config, section, key) == optionxform[key] \in config[section]

\* int(value) for the values of Port in the configurations: the strings int() accepts;
\* it raises ValueError for every other string.
int == [value \in {"22", "2222"} |-> IF value = "22" THEN 22 ELSE 2222]

\* BasicInterpolation, applied by config[section][key]: a '%' that is followed neither
\* by '%' nor by '(' raises InterpolationSyntaxError.
InterpolationSyntaxErrors == {"22%"}

\* What a block of statements ends with: the function returns after printing a
\* message, an exception leaves the function, or control goes on.
Return(message) == [kind |-> "return", what |-> message]

Raise(exception) == [kind |-> "raise", what |-> exception]

Continue == [kind |-> "continue", what |-> ""]

\* The statements from config = configparser.ConfigParser() to the conversion of Port.
load_config(function, config) ==
    IF ~config.exists THEN Return("ERROR: Configuration file not found.")
    ELSE IF config.content = "undecodable" THEN Raise("UnicodeDecodeError")
    ELSE IF config.content = "unparsable"
    THEN Return("ERROR: Could not read or parse config.ini")
    ELSE IF ~({"Paths", "SFTP"} \subseteq config.sections)
    THEN Return("ERROR: Missing 'Paths' or 'SFTP' section in config.ini.")
    ELSE IF \E key \in required_paths_keys(function) : ~has_option(config, "Paths", key)
    THEN Return("ERROR: Missing key(s) in [Paths] section of config.ini")
    ELSE IF \E key \in required_sftp_keys : ~has_option(config, "SFTP", key)
    THEN Return("ERROR: Missing key(s) in [SFTP] section of config.ini")
    ELSE IF config.Port \in InterpolationSyntaxErrors
    THEN Raise("InterpolationSyntaxError")
    ELSE IF config.Port \notin DOMAIN int
    THEN Return("ERROR: SFTP Port in config.ini is not a valid number.")
    ELSE Continue

\* --- bounded environments of a transfer ---
\* The largest number of items in the remote listing and of entries of the local
\* directory.
MaxItems == 3

RECURSIVE DistinctSeqsOfLen(_, _)
DistinctSeqsOfLen(S, n) ==
    IF n = 0 THEN { << >> }
    ELSE { Append(q, x) : q \in DistinctSeqsOfLen(S, n - 1), x \in S } 

\* The sequences of length up to n of distinct elements of S.
DistinctSeqsUpTo(S, n) ==
    { q \in UNION { DistinctSeqsOfLen(S, k) : k \in 0..n } :
        \A i, j \in 1..Len(q) : i # j => q[i] # q[j] }

\* A config.ini with every section and key, and the Port given.
CompleteConfig(port) ==
    [exists |-> TRUE, content |-> "parsed", sections |-> {"Paths", "SFTP"},
     Paths |-> {"workday_xml_downloads", "parsed_csvs"},
     SFTP |-> {"hostname", "port", "username", "password"},
     Port |-> port]

PortValues == {"22", "2222", "sftp", "", "22.0", "22%"}

\* The complete configurations and those with one defect: no file, a file that is not
\* text, a file the parser rejects, a section or a key left out.
Configs ==
    { CompleteConfig(port) : port \in PortValues }
    \cup { [CompleteConfig("22") EXCEPT !.exists = FALSE] }
    \cup { [CompleteConfig("22") EXCEPT !.content = c] : c \in {"undecodable", "unparsable"} }
    \cup { [CompleteConfig("22") EXCEPT !.sections = ss] :
             ss \in (SUBSET {"Paths", "SFTP"}) \ {{"Paths", "SFTP"}} }
    \cup { [CompleteConfig("22") EXCEPT !.Paths = @ \ {key}] :
             key \in {"workday_xml_downloads", "parsed_csvs"} }
    \cup { [CompleteConfig("22") EXCEPT !.SFTP = @ \ {key}] :
             key \in {"hostname", "port", "username", "password"} }

\* The items of the server's root directory: regular files, a directory and a link.
RemoteItems ==
    { [filename |-> "a.xml", regular |-> TRUE], [filename |-> "b.xml", regular |-> TRUE],
      [filename |-> "archive", regular |-> FALSE], [filename |-> "latest", regular |-> FALSE] }

\* The entries of the local directory of parsed files: files and a subdirectory.
LocalEntries ==
    { [filename |-> "parsed_a.csv", isfile |-> TRUE],
      [filename |-> "parsed_b.csv", isfile |-> TRUE],
      [filename |-> "old", isfile |-> FALSE] }

\* What pysftp.Connection(...) does.
ConnectionOutcomes ==
    {"connected", "ConnectionException", "CredentialException", "SSHException"}

\* The local side: whether os.makedirs succeeds, whether the directory of parsed files
\* is a directory, and its entries in the order os.listdir gives them.
Locals ==
    { [makedirs |-> ok, isdir |-> TRUE, entries |-> entries] :
        ok \in BOOLEAN, entries \in DistinctSeqsUpTo(LocalEntries, MaxItems) }
    \cup { [makedirs |-> TRUE, isdir |-> FALSE, entries |-> << >>] }

\* The server: what the connection does, the listing of the root directory, and what
\* is at /parsed_csv_uploads/.
Remotes(function) ==
    IF function = Download
    THEN { [connection |-> c, listing |-> l, upload_dir |-> "absent"] :
             c \in ConnectionOutcomes, l \in DistinctSeqsUpTo(RemoteItems, MaxItems) }
    ELSE { [connection |-> c, listing |-> << >>, upload_dir |-> u] :
             c \in ConnectionOutcomes, u \in {"absent", "directory", "file"} }

InitTransfer ==
    /\ tr_function \in TransferFunctions
    /\ tr_config \in Configs
    /\ tr_local \in IF tr_function = Download
                    THEN { l \in Locals : l.isdir /\ l.entries = << >> }
                    ELSE { l \in Locals : l.makedirs }
    /\ tr_remote \in Remotes(tr_function)
    /\ tr_pc = "start"
    /\ tr_items = << >>
    /\ tr_index = 0
    /\ tr_counts = << >>
    /\ tr_calls = << >>
    /\ tr_printed = << >>
    /\ LookupIdle /\ FlattenIdle /\ BatchIdle /\ HelperIdle /\ TwiceIdle /\ ConcurrentIdle

\* Both functions, from their first statement to the conversion of Port.
TransferConfig ==
    /\ tr_pc = "start"
    /\ LET outcome == load_config(tr_function, tr_config)
       IN  /\ tr_pc' = CASE outcome.kind = "return" -> "returned"
                         [] outcome.kind = "raise" -> "raised"
                         [] outcome.kind = "continue" -> "local"
           /\ tr_printed' = IF outcome.kind = "continue" THEN tr_printed
                            ELSE Append(tr_printed, << outcome.what >>)
    /\ UNCHANGED << tr_function, tr_config, tr_local, tr_remote, tr_items, tr_index,
                    tr_counts, tr_calls, lookup_vars, flatten_vars, batch_vars,
                    helper_vars, twice_vars, concurrent_vars >>

\* download: os.makedirs(local_download_dir, exist_ok=True) and its except OSError.
DownloadMakedirs ==
    /\ tr_function = Download /\ tr_pc = "local"
    /\ IF tr_local.makedirs
       THEN /\ tr_pc' = "connect"
            /\ tr_printed' = Append(tr_printed, << "Local download directory" >>)
       ELSE /\ tr_pc' = "returned"
            /\ tr_printed' =
                  Append(tr_printed, << "ERROR: Could not create local download directory" >>)
    /\ UNCHANGED << tr_function, tr_config, tr_local, tr_remote, tr_items, tr_index,
                    tr_counts, tr_calls, lookup_vars, flatten_vars, batch_vars,
                    helper_vars, twice_vars, concurrent_vars >>

\* upload: the test of os.path.isdir(local_parsed_csv_dir), the list
\* local_files_to_upload and the test that it is not empty.
UploadLocalFiles ==
    /\ tr_function = Upload /\ tr_pc = "local"
    /\ LET local_files_to_upload ==
               LET files == SelectSeq(tr_local.entries, LAMBDA f : f.isfile)
               IN  [i \in 1..Len(files) |-> files[i].filename]
       IN  IF ~tr_local.isdir
           THEN /\ tr_pc' = "returned"
                /\ tr_items' = tr_items
                /\ tr_printed' =
                      Append(tr_printed, << "ERROR: Local directory for parsed CSVs not found" >>)
           ELSE IF local_files_to_upload = << >>
           THEN /\ tr_pc' = "returned"
                /\ tr_items' = local_files_to_upload
                /\ tr_printed' = Append(tr_printed, << "No files found in local directory" >>)
           ELSE /\ tr_pc' = "connect"
                /\ tr_items' = local_files_to_upload
                /\ tr_printed' = Append(tr_printed, << "Found file(s) for upload" >>)
    /\ UNCHANGED << tr_function, tr_config, tr_local, tr_remote, tr_index,
                    tr_counts, tr_calls, lookup_vars, flatten_vars, batch_vars,
                    helper_vars, twice_vars, concurrent_vars >>

\* with pysftp.Connection(...) as sftp, and the except clauses for the exceptions of
\* the connection.
TransferConnect ==
    /\ tr_pc = "connect"
    /\ tr_calls' = Append(tr_calls, << "Connection", tr_remote.connection >>)
    /\ IF tr_remote.connection = "connected"
       THEN /\ tr_pc' = IF tr_function = Download THEN "list" ELSE "ensure"
            /\ tr_printed' = Append(tr_printed, << "Successfully connected to SFTP server." >>)
       ELSE /\ tr_pc' = "returned"
            /\ tr_printed' = Append(tr_printed, << "SFTP Error", tr_remote.connection >>)
    /\ UNCHANGED << tr_function, tr_config, tr_local, tr_remote, tr_items, tr_index,
                    tr_counts, lookup_vars, flatten_vars, batch_vars,
                    helper_vars, twice_vars, concurrent_vars >>

\* download: sftp.cwd, remote_items = sftp.listdir_attr(), the three counters and the
\* test of remote_items.
DownloadList ==
    /\ tr_function = Download /\ tr_pc = "list"
    /\ tr_calls' = tr_calls \o << << "cwd", "/" >>, << "listdir_attr" >> >>
    /\ tr_items' = tr_remote.listing
    /\ tr_index' = 0
    /\ tr_counts' = [downloaded_count |-> 0, skipped_count |-> 0, error_count |-> 0]
    /\ IF tr_remote.listing = << >>
       THEN /\ tr_pc' = "summary"
            /\ tr_printed' = Append(tr_printed, << "No files or directories found" >>)
       ELSE /\ tr_pc' = "loop"
            /\ tr_printed' = Append(tr_printed, << "Found items", Len(tr_remote.listing) >>)
    /\ UNCHANGED << tr_function, tr_config, tr_local, tr_remote,
                    lookup_vars, flatten_vars, batch_vars,
                    helper_vars, twice_vars, concurrent_vars >>

\* A variant of the loop in which the first failed download ends it.
DownloadItem_stopping ==
    /\ tr_function = Download /\ tr_pc = "loop" /\ tr_index < Len(tr_items)
    /\ LET item_attr == tr_items[tr_index + 1]
           item_name == item_attr.filename
       IN  IF item_attr.regular
           THEN \E ok \in BOOLEAN :
                  /\ tr_calls' = Append(tr_calls, << "get", item_name, ok >>)
                  /\ tr_printed' = tr_printed \o
                        << << "Downloading", item_name >>,
                           << IF ok THEN "Successfully downloaded" ELSE "ERROR downloading",
                              item_name >> >>
                  /\ tr_counts' = IF ok THEN [tr_counts EXCEPT !.downloaded_count = @ + 1]
                                  ELSE [tr_counts EXCEPT !.error_count = @ + 1]
                  /\ tr_pc' = IF ~ok \/ tr_index + 1 = Len(tr_items) THEN "summary"
                              ELSE "loop"
           ELSE /\ tr_calls' = tr_calls
                /\ tr_printed' = Append(tr_printed, << "Skipping non-file item", item_name >>)
                /\ tr_counts' = [tr_counts EXCEPT !.skipped_count = @ + 1]
                /\ tr_pc' = IF tr_index + 1 = Len(tr_items) THEN "summary" ELSE "loop"
    /\ tr_index' = tr_index + 1
    /\ UNCHANGED << tr_function, tr_config, tr_local, tr_remote, tr_items,
                    lookup_vars, flatten_vars, batch_vars,
                    helper_vars, twice_vars, concurrent_vars >>

\* download: one iteration of for item_attr in remote_items.
DownloadItem ==
    /\ tr_function = Download /\ tr_pc = "loop" /\ tr_index < Len(tr_items)
    /\ LET item_attr == tr_items[tr_index + 1]
           item_name == item_attr.filename
       IN  IF item_attr.regular
           THEN \E ok \in BOOLEAN :
                  /\ tr_calls' = Append(tr_calls, << "get", item_name, ok >>)
                  /\ tr_printed' = tr_printed \o
                        << << "Downloading", item_name >>,
                           << IF ok THEN "Successfully downloaded" ELSE "ERROR downloading",
                              item_name >> >>
                  /\ tr_counts' = IF ok THEN [tr_counts EXCEPT !.downloaded_count = @ + 1]
                                  ELSE [tr_counts EXCEPT !.error_count = @ + 1]
           ELSE /\ tr_calls' = tr_calls
                /\ tr_printed' = Append(tr_printed, << "Skipping non-file item", item_name >>)
                /\ tr_counts' = [tr_counts EXCEPT !.skipped_count = @ + 1]
    /\ tr_index' = tr_index + 1
    /\ tr_pc' = IF tr_index + 1 = Len(tr_items) THEN "summary" ELSE "loop"
    /\ UNCHANGED << tr_function, tr_config, tr_local, tr_remote, tr_items,
                    lookup_vars, flatten_vars, batch_vars,
                    helper_vars, twice_vars, concurrent_vars >>

\* download: the summary printed after the loop, and the end of the with block.
DownloadSummary ==
    /\ tr_function = Download /\ tr_pc = "summary"
    /\ tr_printed' = Append(tr_printed,
                            << "Download summary", tr_counts.downloaded_count,
                               tr_counts.skipped_count, tr_counts.error_count >>)
    /\ tr_pc' = "returned"
    /\ UNCHANGED << tr_function, tr_config, tr_local, tr_remote, tr_items, tr_index,
                    tr_counts, tr_calls, lookup_vars, flatten_vars, batch_vars,
                    helper_vars, twice_vars, concurrent_vars >>

\* A variant that goes on to the uploads when the remote directory could not be made.
UploadEnsureDir_continuing ==
    /\ tr_function = Upload /\ tr_pc = "ensure"
    /\ \/ /\ tr_remote.upload_dir = "absent"
          /\ \E ok \in BOOLEAN :
               /\ tr_calls' = tr_calls \o
                     << << "exists", FALSE >>, << "makedirs", ok >>,
                        << "cwd", "/parsed_csv_uploads/" >> >>
               /\ tr_printed' = Append(tr_printed, << "Successfully created remote directory" >>)
               /\ tr_pc' = "loop"
       \/ /\ tr_remote.upload_dir = "file"
          /\ tr_calls' = tr_calls \o << << "exists", TRUE >>, << "isdir", FALSE >> >>
          /\ tr_printed' = Append(tr_printed, << "ERROR: exists but is not a directory" >>)
          /\ tr_pc' = "returned"
       \/ /\ tr_remote.upload_dir = "directory"
          /\ tr_calls' = tr_calls \o
                << << "exists", TRUE >>, << "isdir", TRUE >>,
                   << "cwd", "/parsed_csv_uploads/" >> >>
          /\ tr_printed' = Append(tr_printed, << "Remote directory confirmed" >>)
          /\ tr_pc' = "loop"
    /\ tr_index' = 0
    /\ tr_counts' = [uploaded_count |-> 0, error_count |-> 0]
    /\ UNCHANGED << tr_function, tr_config, tr_local, tr_remote, tr_items,
                    lookup_vars, flatten_vars, batch_vars,
                    helper_vars, twice_vars, concurrent_vars >>

\* upload: the test of the remote directory (sftp.exists, sftp.makedirs, sftp.isdir),
\* sftp.cwd and the two counters. The counters are set only when the directory is
\* there.
UploadEnsureDir ==
    /\ tr_function = Upload /\ tr_pc = "ensure"
    /\ \/ /\ tr_remote.upload_dir = "absent"
          /\ \E ok \in BOOLEAN :
               IF ok
               THEN /\ tr_calls' = tr_calls \o
                          << << "exists", FALSE >>, << "makedirs", TRUE >>,
                             << "cwd", "/parsed_csv_uploads/" >> >>
                    /\ tr_printed' =
                          Append(tr_printed, << "Successfully created remote directory" >>)
                    /\ tr_pc' = "loop"
               ELSE /\ tr_calls' = tr_calls \o
                          << << "exists", FALSE >>, << "makedirs", FALSE >> >>
                    /\ tr_printed' =
                          Append(tr_printed, << "ERROR: Could not create remote directory" >>)
                    /\ tr_pc' = "returned"
       \/ /\ tr_remote.upload_dir = "file"
          /\ tr_calls' = tr_calls \o << << "exists", TRUE >>, << "isdir", FALSE >> >>
          /\ tr_printed' = Append(tr_printed, << "ERROR: exists but is not a directory" >>)
          /\ tr_pc' = "returned"
       \/ /\ tr_remote.upload_dir = "directory"
          /\ tr_calls' = tr_calls \o
                << << "exists", TRUE >>, << "isdir", TRUE >>,
                   << "cwd", "/parsed_csv_uploads/" >> >>
          /\ tr_printed' = Append(tr_printed, << "Remote directory confirmed" >>)
          /\ tr_pc' = "loop"
    /\ tr_index' = 0
    /\ tr_counts' = IF tr_pc' = "loop" THEN [uploaded_count |-> 0, error_count |-> 0]
                    ELSE tr_counts
    /\ UNCHANGED << tr_function, tr_config, tr_local, tr_remote, tr_items,
                    lookup_vars, flatten_vars, batch_vars,
                    helper_vars, twice_vars, concurrent_vars >>

\* upload: one iteration of for file_name in local_files_to_upload.
UploadFile ==
    /\ tr_function = Upload /\ tr_pc = "loop" /\ tr_index < Len(tr_items)
    /\ LET file_name == tr_items[tr_index + 1]
       IN  \E ok \in BOOLEAN :
             /\ tr_calls' = Append(tr_calls, << "put", file_name, ok >>)
             /\ tr_printed' = tr_printed \o
                   << << "Uploading", file_name >>,
                      << IF ok THEN "Successfully uploaded" ELSE "ERROR uploading",
                         file_name >> >>
             /\ tr_counts' = IF ok THEN [tr_counts EXCEPT !.uploaded_count = @ + 1]
                             ELSE [tr_counts EXCEPT !.error_count = @ + 1]
    /\ tr_index' = tr_index + 1
    /\ tr_pc' = IF tr_index + 1 = Len(tr_items) THEN "summary" ELSE "loop"
    /\ UNCHANGED << tr_function, tr_config, tr_local, tr_remote, tr_items,
                    lookup_vars, flatten_vars, batch_vars,
                    helper_vars, twice_vars, concurrent_vars >>

\* upload: the summary printed after the loop, and the end of the with block.
UploadSummary ==
    /\ tr_function = Upload /\ tr_pc = "summary"
    /\ tr_printed' = Append(tr_printed,
                            << "Upload summary", tr_counts.uploaded_count,
                               tr_counts.error_count >>)
    /\ tr_pc' = "returned"
    /\ UNCHANGED << tr_function, tr_config, tr_local, tr_remote, tr_items, tr_index,
                    tr_counts, tr_calls, lookup_vars, flatten_vars, batch_vars,
                    helper_vars, twice_vars, concurrent_vars >>

NextTransfer ==
    \/ TransferConfig
    \/ DownloadMakedirs
    \/ UploadLocalFiles
    \/ TransferConnect
    \/ DownloadList
    \/ DownloadItem
    \/ DownloadSummary
    \/ UploadEnsureDir
    \/ UploadFile
    \/ UploadSummary

SpecTransfer == InitTransfer /\ [][NextTransfer]_vars


(***************************************************************************)
(* The download loop: C26.                                                 *)
(***************************************************************************)
\* The calls of a kind made for a name, as positions in the history of calls.
CallsFor(kind, name) ==
    { k \in 1..Len(tr_calls) : tr_calls[k][1] = kind /\ tr_calls[k][2] = name }

\* The lines of a kind printed for a name.
PrintedFor(kind, name) ==
    { k \in 1..Len(tr_printed) :
        /\ Len(tr_printed[k]) = 2
        /\ tr_printed[k][1] = kind /\ tr_printed[k][2] = name }

\* The download has listed the remote directory.
Listed == tr_function = Download /\ << "listdir_attr" >> \in Range(tr_calls)

\* The summary of a transfer was printed.
SummaryPrinted ==
    \E k \in 1..Len(tr_printed) :
        tr_printed[k][1] \in {"Download summary", "Upload summary"}

\* C26: in the download every item of the remote listing is handled exactly once, a
\* regular file by one download attempt and any other item by a skip without an
\* attempt; a failed download does not end the loop; when the loop has ended,
\* downloaded_count + skipped_count + error_count is the number of listed items.
C26_EveryItemHandledOnce ==
    Listed =>
        /\ tr_items = tr_remote.listing
        /\ tr_index <= Len(tr_items)
        /\ tr_counts.downloaded_count + tr_counts.skipped_count + tr_counts.error_count
              = tr_index
        /\ \A i \in 1..Len(tr_items) :
              LET item == tr_items[i]
                  gets == CallsFor("get", item.filename)
                  skips == PrintedFor("Skipping non-file item", item.filename)
              IN  IF i > tr_index THEN gets = {} /\ skips = {}
                  ELSE IF item.regular THEN Cardinality(gets) = 1 /\ skips = {}
                  ELSE gets = {} /\ Cardinality(skips) = 1
        /\ tr_counts.downloaded_count =
              Cardinality({ k \in 1..Len(tr_calls) :
                              tr_calls[k][1] = "get" /\ tr_calls[k][3] })
        /\ tr_counts.error_count =
              Cardinality({ k \in 1..Len(tr_calls) :
                              tr_calls[k][1] = "get" /\ ~tr_calls[k][3] })
        /\ tr_pc = "loop" => tr_index < Len(tr_items) /\ ENABLED DownloadItem
        /\ tr_pc \in {"loop", "summary", "returned"}
        /\ tr_pc \in {"summary", "returned"} =>
              /\ tr_index = Len(tr_items)
              /\ tr_counts.downloaded_count + tr_counts.skipped_count
                    + tr_counts.error_count = Len(tr_remote.listing)
        /\ tr_pc = "returned" => SummaryPrinted

\* A listing of three items handled to the end: a download that failed, a skipped
\* item and a download that succeeded after the failure.
C26_Witness ==
    /\ Listed /\ tr_pc = "returned" /\ Len(tr_items) = 3
    /\ tr_counts = [downloaded_count |-> 1, skipped_count |-> 1, error_count |-> 1]
    /\ \E k \in 1..Len(tr_calls) :
          /\ tr_calls[k][1] = "get" /\ ~tr_calls[k][3]
          /\ \E later \in (k + 1)..Len(tr_calls) :
                tr_calls[later][1] = "get" /\ tr_calls[later][3]

(***************************************************************************)
(* The upload loop: C27.                                                   *)
(***************************************************************************)
\* The positions of the put calls.
Puts == { k \in 1..Len(tr_calls) : tr_calls[k][1] = "put" }

\* The remote directory was found to be a directory, or was created, by position k.
DirectoryReadyBy(k) ==
    \/ \E i, j \in 1..k :
          i < j /\ tr_calls[i] = << "exists", TRUE >> /\ tr_calls[j] = << "isdir", TRUE >>
    \/ \E i, j \in 1..k :
          i < j /\ tr_calls[i] = << "exists", FALSE >> /\ tr_calls[j] = << "makedirs", TRUE >>

\* The creation failed, or the path is there and is not a directory.
DirectoryRefused ==
    << "makedirs", FALSE >> \in Range(tr_calls) \/ << "isdir", FALSE >> \in Range(tr_calls)

\* C27: in the upload no put is made unless the remote directory was first found to be
\* a directory or created; when the creation fails or the path is not a directory the
\* function returns without a put; otherwise every local file is attempted exactly
\* once, a failed upload does not end the loop, and at the end uploaded_count +
\* error_count is the number of local files.
C27_PutOnlyIntoConfirmedDirectory ==
    tr_function = Upload =>
        /\ \A k \in Puts : DirectoryReadyBy(k - 1)
        /\ DirectoryRefused => Puts = {} /\ tr_pc = "returned" /\ ~SummaryPrinted
        /\ DirectoryReadyBy(Len(tr_calls)) =>
              /\ tr_pc \in {"loop", "summary", "returned"}
              /\ tr_items =
                    LET files == SelectSeq(tr_local.entries, LAMBDA f : f.isfile)
                    IN  [i \in 1..Len(files) |-> files[i].filename]
              /\ tr_counts.uploaded_count + tr_counts.error_count = tr_index
              /\ \A i \in 1..Len(tr_items) :
                    Cardinality(CallsFor("put", tr_items[i])) = IF i > tr_index THEN 0 ELSE 1
              /\ Cardinality(Puts) = tr_index
              /\ tr_pc = "loop" => tr_index < Len(tr_items) /\ ENABLED UploadFile
              /\ tr_pc \in {"summary", "returned"} =>
                    /\ tr_index = Len(tr_items)
                    /\ tr_counts.uploaded_count + tr_counts.error_count = Len(tr_items)
              /\ tr_pc = "returned" => SummaryPrinted

\* An upload into a directory that had to be created: two files, the first put failed
\* and the second succeeded.
C27_Witness ==
    /\ tr_function = Upload /\ tr_pc = "returned"
    /\ << "makedirs", TRUE >> \in Range(tr_calls)
    /\ tr_counts = [uploaded_count |-> 1, error_count |-> 1]
    /\ Len(tr_local.entries) = 3
    /\ \E k \in Puts : ~tr_calls[k][3] /\ k + 1 \in Puts /\ tr_calls[k + 1][3]

(***************************************************************************)
(* Defects found before the connection: C28.                               *)
(***************************************************************************)
\* A configuration defect: no config.ini, a config.ini that cannot be parsed, a missing
\* section or required key, a Port that is not a number.
ConfigurationDefect ==
    \/ ~tr_config.exists
    \/ tr_config.content # "parsed"
    \/ ~({"Paths", "SFTP"} \subseteq tr_config.sections)
    \/ \E key \in required_paths_keys(tr_function) : ~has_option(tr_config, "Paths", key)
    \/ \E key \in required_sftp_keys : ~has_option(tr_config, "SFTP", key)
    \/ tr_config.Port \notin DOMAIN int

\* upload: the local directory is missing or holds no file.
NothingToUpload ==
    /\ tr_function = Upload
    /\ \/ ~tr_local.isdir
       \/ \A i \in 1..Len(tr_local.entries) : ~tr_local.entries[i].isfile

\* C28: with a configuration defect (and, for the upload, a missing local directory or
\* no local file) a transfer function returns before any connection is attempted and
\* raises nothing.
C28_DefectsReturnBeforeConnecting ==
    (tr_pc # "idle" /\ (ConfigurationDefect \/ NothingToUpload)) =>
        /\ tr_pc \in {"start", "local", "returned"}
        /\ tr_calls = << >>


(***************************************************************************)
(* The get_text variants: C29.                                             *)
(***************************************************************************)
\* The cell the call of get_text made by a script gives once written.
TextCell(script) == csv_cell(get_text(script, hp_element, hp_path))

\* C29: the get_text variants agree in the cell written: for every element (None or
\* present), path and text of the matched element (no match, no text, text) the cell
\* of the value the compensation and master variants return (None where the element or
\* its text is missing under the master default, or the text is missing under the
\* compensation variant) is the cell of the value the grant/program variant returns.
C29_GetTextVariantsAgree ==
    (hp_pc = "returned" /\ hp_helper = "get_text") =>
        /\ csv_cell(hp_result) = TextCell(hp_script)
        /\ \A script \in HelperScripts : TextCell(script) = TextCell(Grant)
        /\ TextCell(Grant) = get_text_grant(hp_element, hp_path, "")
        /\ TextCell(Grant) =
              IF IsNone(hp_element) \/ IsNone(find(hp_element, hp_path)) THEN ""
              ELSE IF find(hp_element, hp_path).text = None THEN ""
              ELSE find(hp_element, hp_path).text

\* The compensation variant called for a child without text: it returned None where
\* the grant variant returns ''.
C29_Witness ==
    /\ hp_pc = "returned" /\ hp_helper = "get_text" /\ hp_script = Compensation
    /\ ~IsNone(hp_element) /\ ~IsNone(find(hp_element, hp_path))
    /\ hp_result = None
    /\ get_text(Grant, hp_element, hp_path) = ""


(***************************************************************************)
(* The serialized profiles of the master parser: C30.                      *)
(***************************************************************************)
\* The text of the first ID child of the type that has text, None when there is none.
TypedIdTextOf(element, type) ==
    LET texts == SelectSeq(findall(element, "ID"),
                           LAMBDA k : k.type = type /\ k.text # None /\ k.text # "")
    IN  IF texts = << >> THEN None ELSE Head(texts).text

\* The object serialized for one Compensation_Grade_Profiles child.
ProfileObject(child) ==
    [Descriptor |-> child.Descriptor,
     ID_WID |-> TypedIdTextOf(child, "WID"),
     ID_Compensation_Grade_Profile_ID |-> TypedIdTextOf(child, "Compensation_Grade_Profile_ID")]

\* The Compensation_Grade_Profiles children of the entry's
\* Default_Compensation_Grade_group, in document order; none when the group is absent.
ProfileChildren(entry) ==
    LET groups == findall(entry, "Default_Compensation_Grade_group")
    IN  IF groups = << >> THEN << >>
        ELSE findall(Head(groups), "Compensation_Grade_Profiles")

\* C30: in the master parser the Default_Compensation_Grade_group_Profiles_Serialized
\* cell of an entry is the serialization of one object per Compensation_Grade_Profiles
\* child of the entry's Default_Compensation_Grade_group, in document order, each made
\* of the child's Descriptor and its WID and Compensation_Grade_Profile_ID typed IDs
\* and of nothing else; the cell is empty when the group is absent or has no such child.
C30_ProfilesSerialized ==
    fl_script = Master =>
        \A e \in 1..fl_done :
            LET children == ProfileChildren(report_entries(fl_root)[e])
                objects == [i \in 1..Len(children) |-> ProfileObject(children[i])]
            IN  /\ Len(RowsOfEntry(e)) = 1
                /\ Cell(Master, RowsOfEntry(e)[1],
                        "Default_Compensation_Grade_group_Profiles_Serialized") =
                      IF children = << >> THEN "" ELSE json_dumps(objects)

\* A master entry whose group has two different profile children, written: the cell
\* holds the two objects, which differ.
C30_Witness ==
    /\ fl_script = Master /\ fl_pc = "written" /\ fl_done >= 1
    /\ LET children == ProfileChildren(report_entries(fl_root)[1])
       IN  /\ Len(children) = 2
           /\ ProfileObject(children[1]) # ProfileObject(children[2])
           /\ fl_lines[1][ColumnIndex(Master,
                  "Default_Compensation_Grade_group_Profiles_Serialized")] =
                 json_dumps(<< ProfileObject(children[1]), ProfileObject(children[2]) >>)

====
